---- MODULE Spec2Model ----
(***************************************************************************)
(* MultiTTSApp: the engine adapters (tts_engines/*.py) and the API wrapper *)
(* (api/tts_api.py) as a state machine.                                    *)
(*                                                                         *)
(* State: the module-level caches of the three local engines, the files    *)
(* and directories the adapters look at, the device torch reports, and     *)
(* the record of the most recent call (its arguments, what it invoked and  *)
(* what it returned).  The backends (TTS, PiperVoice, Bark, the ElevenLabs *)
(* client) are the environment: every call draws their behaviour (raise or *)
(* complete, what is left on disk) from a finite set.                      *)
(*                                                                         *)
(* The four engines share no state: each has its own module globals, and  *)
(* the files, directories and device they all see start in every state     *)
(* another engine could have left.  A run therefore exercises one engine,  *)
(* fixed by its first call (the variable `engine`).                        *)
(*                                                                         *)
(* Strings that the code takes apart (paths) are sequences of tokens;      *)
(* strings it only compares are TLA+ strings.  Python's None is PyNone     *)
(* for plain strings and NonePath for paths.                               *)
(***************************************************************************)
EXTENDS Integers, Sequences, FiniteSets, TLC

VARIABLES
    cuda_available,         \* torch.cuda.is_available()
    files,                  \* path -> "missing" | "empty" | "nonempty"
    dirs,                   \* the directories that exist
    loadCount,              \* backend loader invocations so far (names the handles)
    xtts_loaded_models,     \* xtts_engine.loaded_models : model_key -> handle
    xtts_loaded_device,     \* xtts_engine.loaded_device
    bark_loaded_processor,  \* bark_engine.loaded_processor
    bark_loaded_model,      \* bark_engine.loaded_model
    bark_loaded_device,     \* bark_engine.loaded_device
    piper_loaded_voices,    \* piper_engine.loaded_voices : onnx_path -> voice
    api_current_elevenlabs_key,  \* MultiTTSAPI._current_elevenlabs_key
    app_current_elevenlabs_key,  \* TTSApp.current_elevenlabs_key
    threads,                \* the load calls running in worker threads: thread ->
                            \* position, arguments, locals, result
    synthesis_jobs,         \* web_app.synthesis_jobs: job id -> job record
    web_workers,            \* the run_synthesis_job threads: job id -> position, locals
    gui_ui_state,           \* TTSApp: the state set_ui_state gave the synthesis controls
    gui_workers,            \* TTSApp: the worker threads running, in the order they started
    gui_after_queue,        \* TTSApp: the callbacks scheduled with self.after(0, ...)
    elevenlabs_voices,      \* TTSApp.elevenlabs_voices: voice name -> voice id
    engine,                 \* the engine this run exercises ("none" before its first call)
    pc,                     \* where the running call stands: "idle" (none runs), a block
                            \* of synthesize_xtts, or "returned" (the caller has the result)
    call                    \* the most recent call: arguments, trace, result

envVars == <<cuda_available, files, dirs>>
xttsVars == <<xtts_loaded_models, xtts_loaded_device>>
barkVars == <<bark_loaded_processor, bark_loaded_model, bark_loaded_device>>
piperVars == <<piper_loaded_voices>>
credVars == <<api_current_elevenlabs_key, app_current_elevenlabs_key>>
webVars == <<synthesis_jobs, web_workers>>
guiVars == <<gui_ui_state, gui_workers, gui_after_queue, elevenlabs_voices>>
vars == <<envVars, loadCount, xttsVars, barkVars, piperVars, credVars, threads, webVars, guiVars,
          engine, pc, call>>

(***************************************************************************)
(* Bounds                                                                  *)
(***************************************************************************)
MaxLoads == 2               \* loader invocations explored
MaxVoices == 3              \* voices in the catalog the service reports
MaxJobs == 2                \* synthesis jobs the web server accepts
MaxPending == 2             \* threads and callbacks of the window that have not run yet

(***************************************************************************)
(* Python values                                                           *)
(***************************************************************************)
PyNone == "<None>"
NonePath == <<"<None>">>
NoDevice == "<None>"
NoHandle == [key |-> PyNone, dev |-> NoDevice, id |-> 0]

\* what a call gives back to its caller
RetPair(ok, msg) == [kind |-> "pair", success |-> ok, message |-> msg]
RetNone == [kind |-> "none"]
RetValue(v) == [kind |-> "value", value |-> v]
Raised(exc) == [kind |-> "raise", exc |-> exc]

Pending == [kind |-> "pending"]

\* an f-string message: its template, the error text and the path it embeds
Msg(template, text, path) == [template |-> template, text |-> text, path |-> path]

(***************************************************************************)
(* Paths and the file system                                               *)
(***************************************************************************)
OutPaths == {<<"out", "/", "a", ".wav">>, <<"a", ".wav">>}   \* in a directory; bare
SpeakerFile == <<"spk", ".wav">>
GhostFile == <<"ghost", ".wav">>
SpeakerInputs == {NonePath, <<>>, <<" ">>, <<" ", "spk", ".wav">>, GhostFile}
\* the Piper model artifacts
PiperOnnx == <<"m1", ".onnx">>
PiperJsons == {<<"m1", ".json">>, <<"m2", ".json">>}
PiperArtifacts == {PiperOnnx} \cup PiperJsons

\* str.replace(old, new) on a tokenised string
RECURSIVE Replace(_, _, _)
Replace(p, old, new) ==
    IF p = <<>> THEN <<>>
    ELSE <<IF Head(p) = old THEN new ELSE Head(p)>> \o Replace(Tail(p), old, new)

\* elevenlabs_engine lines 218-219: where the MP3 goes
Mp3Path(output_path) ==
    LET r == Replace(output_path, ".wav", ".mp3") IN
    IF r = output_path THEN Append(r, ".mp3") ELSE r

\* output paths as a user may type them: with the extension, with it in
\* upper case, with another one, with none
TypedPaths == {<<"a", ".wav">>, <<"a", ".WAV">>, <<"a", ".mp3">>, <<"a">>}

\* str.lower on a token
Lower(tok) == IF tok = ".WAV" THEN ".wav" ELSE tok

\* output_path.lower().endswith(".wav")
EndsWithWav(p) == p # <<>> /\ Lower(p[Len(p)]) = ".wav"

\* app.py line 832: "Ensure .wav target"
EnsureWavTarget(output_path) ==
    IF ~EndsWithWav(output_path) THEN Append(output_path, ".wav") ELSE output_path

\* an output file in a directory whose name holds ".wav": d.wav/a.wav
DottedDirPath == <<"d", ".wav", "/", "a", ".wav">>
\* the output paths given to synthesize_elevenlabs
ElevenOutPaths == OutPaths \cup {DottedDirPath}

\* web_app.py: the files the web server names
WebModelTypes == {"ElevenLabs", "XTTSv2", "Piper", "Bark", "Other"}
OutputFolder == "audio_output"
\* str.lower on a model type
ModelLower(model_type) ==
    IF model_type = "ElevenLabs" THEN "elevenlabs" ELSE IF model_type = "XTTSv2" THEN "xttsv2"
    ELSE IF model_type = "Piper" THEN "piper" ELSE IF model_type = "Bark" THEN "bark"
    ELSE "other"

\* the timestamp and uuid of the n-th request
JobTags == <<"u1", "u2", "u3", "u4">>

\* line 205: the name is built once, with the .wav extension
WebOutputFilename(model_type, n) == <<ModelLower(model_type), "_", JobTags[n], ".wav">>

\* os.path.join(app.config['OUTPUT_FOLDER'], filename)
InOutputFolder(filename) == <<OutputFolder, "/">> \o filename

WebPaths == {InOutputFolder(WebOutputFilename(m, n)) : m \in WebModelTypes, n \in 1..MaxJobs}

AllPaths == OutPaths \cup {Mp3Path(p) : p \in OutPaths} \cup {SpeakerFile, GhostFile}
               \cup PiperArtifacts \cup TypedPaths \cup {EnsureWavTarget(p) : p \in TypedPaths}
               \cup WebPaths \cup {Mp3Path(p) : p \in WebPaths}
               \cup {DottedDirPath, Mp3Path(DottedDirPath)}

RECURSIVE LastSlash(_, _)
LastSlash(p, i) ==
    IF i = 0 THEN 0 ELSE IF p[i] = "/" THEN i ELSE LastSlash(p, i - 1)

\* os.path.dirname
Dirname(p) ==
    LET i == LastSlash(p, Len(p)) IN IF i = 0 THEN <<>> ELSE SubSeq(p, 1, i - 1)

RECURSIVE LStrip(_)
LStrip(s) == IF s # <<>> /\ Head(s) = " " THEN LStrip(Tail(s)) ELSE s

RECURSIVE RStrip(_)
RStrip(s) ==
    IF s # <<>> /\ s[Len(s)] = " " THEN RStrip(SubSeq(s, 1, Len(s) - 1)) ELSE s

\* str.strip
Strip(s) == RStrip(LStrip(s))

\* os.path.exists(p) and os.path.isfile(p)
IsFile(fs, p) == p \in DOMAIN fs /\ fs[p] # "missing"

\* os.makedirs(d, exist_ok=True): FileNotFoundError on the empty path
MakedirsRaises(d) == d = <<>>

(***************************************************************************)
(* config/tts_models_config.py                                             *)
(***************************************************************************)
Langs == {"en", "nl", "xx"}

TTS_MODELS_CONFIG ==
    [xtts_v2 |-> [type |-> "xtts", languages |-> {"en", "nl"}, xtts_in_key |-> TRUE],
     tacotron2_ddc |-> [type |-> "standard", languages |-> {"en"}, xtts_in_key |-> FALSE]]

get_available_models == TTS_MODELS_CONFIG
DEFAULT_MODEL == "xtts_v2"
ModelKeys == DOMAIN TTS_MODELS_CONFIG \cup {"bogus"}

get_device == IF cuda_available THEN "cuda" ELSE "cpu"

(***************************************************************************)
(* xtts_engine.load_xtts_model                                             *)
(*   st      = [models, device]: the module globals                        *)
(*   dev     = get_device() at the call                                    *)
(*   loaderOK: whether TTS(model_path) and tts.to(device) complete         *)
(*   id      : the identity of the object a completed loader returns       *)
(* Result: the globals afterwards, the returned handle or the exception,   *)
(* and whether the loader ran.                                             *)
(***************************************************************************)
\* a variant that compares the device the wrong way round
XttsCacheHitOtherDevice(st, model_key, dev, force_reload) ==
    /\ model_key \in DOMAIN st.models
    /\ st.device # dev
    /\ ~force_reload

XttsCacheHit(st, model_key, dev, force_reload) ==
    /\ model_key \in DOMAIN st.models
    /\ st.device = dev
    /\ ~force_reload

\* a variant of the except branch that leaves the cache as it is
XttsRollbackKeep(models, model_key) == models

\* the except branch: "Remove from cache if it was partially loaded"
XttsRollback(models, model_key) ==
    [k \in DOMAIN models \ {model_key} |-> models[k]]

\* the try branch: loaded_models[model_key] = tts; loaded_device = device
XttsStore(st, model_key, dev, id) ==
    LET h == [key |-> model_key, dev |-> dev, id |-> id] IN
    [models |-> [k \in DOMAIN st.models \cup {model_key} |->
                    IF k = model_key THEN h ELSE st.models[k]],
     device |-> dev]

RECURSIVE load_xtts_model(_, _, _, _, _, _)
load_xtts_model(st, model_key, force_reload, dev, loaderOK, id) ==
    IF XttsCacheHit(st, model_key, dev, force_reload)
    THEN [st |-> st, ret |-> RetValue(st.models[model_key]), loader |-> FALSE]
    ELSE IF model_key \notin DOMAIN get_available_models
    THEN IF DEFAULT_MODEL \in DOMAIN get_available_models /\ model_key # DEFAULT_MODEL
         THEN load_xtts_model(st, DEFAULT_MODEL, force_reload, dev, loaderOK, id)
         ELSE [st |-> st, ret |-> Raised("ValueError: Unknown TTS model"), loader |-> FALSE]
    ELSE IF loaderOK
    THEN LET st2 == XttsStore(st, model_key, dev, id) IN
         [st |-> st2, ret |-> RetValue(st2.models[model_key]), loader |-> TRUE]
    ELSE [st |-> [st EXCEPT !.models = XttsRollback(st.models, model_key)],
          ret |-> Raised("LoaderError"), loader |-> TRUE]

XttsState == [models |-> xtts_loaded_models, device |-> xtts_loaded_device]


(***************************************************************************)
(* xtts_engine.synthesize_xtts, one step per try block.                    *)
(* The running call is the record `call`; pc is the block it stands at.    *)
(***************************************************************************)
FileEffects == {"keep", "empty", "nonempty"}
\* what the backend does when invoked: raise or complete, and what it leaves
\* at output_path
Outcomes == [raises : BOOLEAN, file : FileEffects]

\* the outer except (lines 356-361)
XttsExcept(text) == RetPair(FALSE, Msg("TTS synthesis failed", text, <<>>))

\* a variant that substitutes the fallback language for every model type
XttsLanguageAnyType(model_key, language) ==
    LET info == get_available_models[model_key] IN
    IF language \notin info.languages /\ "en" \in info.languages
    THEN "en" ELSE language

\* language substitution before the load (lines 189-195)
XttsLanguage(model_key, language) ==
    LET info == get_available_models[model_key] IN
    IF language \notin info.languages /\ info.type # "xtts" /\ "en" \in info.languages
    THEN "en" ELSE language

\* speaker_wav_path handling (lines 201-212): valid_speaker_wav, or None
ValidSpeakerWav(fs, speaker_wav_path) ==
    IF speaker_wav_path # NonePath /\ speaker_wav_path # <<>>
       /\ Strip(speaker_wav_path) # <<>> /\ IsFile(fs, Strip(speaker_wav_path))
    THEN Strip(speaker_wav_path) ELSE NonePath

\* line 226
IsXttsBranch(model_key) ==
    LET info == get_available_models[model_key] IN
    info.type \in {"xtts", "multilingual"} \/ info.xtts_in_key

\* lines 179-221: everything before the first method
XttsPrelude(st, fs, speaker_wav_path, language, output_path, model_key, dev, loaderOK, id) ==
    LET none == [st |-> st, loader |-> FALSE, language |-> language,
                 spk |-> NonePath, model |-> NoHandle, mkdir |-> FALSE,
                 ret |-> Pending]
    IN
    IF model_key \notin DOMAIN get_available_models
    THEN [none EXCEPT !.ret = XttsExcept("Unknown TTS model")]
    ELSE
    LET lang == XttsLanguage(model_key, language)
        ld == load_xtts_model(st, model_key, FALSE, dev, loaderOK, id)
        afterLoad == [none EXCEPT !.st = ld.st, !.loader = ld.loader, !.language = lang]
    IN
    IF ld.ret.kind = "raise"
    THEN [afterLoad EXCEPT !.ret = XttsExcept(ld.ret.exc)]
    ELSE
    LET loaded == [afterLoad EXCEPT !.model = ld.ret.value,
                                    !.spk = ValidSpeakerWav(fs, speaker_wav_path)]
    IN
    IF MakedirsRaises(Dirname(output_path))
    THEN [loaded EXCEPT !.ret = XttsExcept("FileNotFoundError")]
    ELSE [loaded EXCEPT !.mkdir = TRUE]

\* a variant of the last guard that forgets synthesis_successful
Guard4Always(c) == TRUE

\* a variant of the third guard without the language check
Guard3AnyLanguage(c) == ~c.ok

\* the guards of the four try blocks
Guard1(c) == ~c.ok
Guard2(c) == ~c.ok
Guard3(c) == ~c.ok /\ c.language # "en"
Guard4(c) == ~c.ok

\* the backend invocation each method makes: [method, api, speaker_wav, language]
Invocation1(c) == [method |-> 1, api |-> "tts_to_file", speaker_wav |-> c.valid_speaker_wav,
                   language |-> c.language]
Invocation2(c) == [method |-> 2, api |-> "tts", speaker_wav |-> c.valid_speaker_wav,
                   language |-> c.language]
Invocation3(c) == [method |-> 3, api |-> "tts", speaker_wav |-> c.valid_speaker_wav,
                   language |-> "en"]
Invocation4(c) == [method |-> 4, api |-> "tts", speaker_wav |-> NonePath,
                   language |-> PyNone]
\* the non-XTTS branch (lines 305-336)
InvocationN1(c) == [method |-> 1, api |-> "tts_to_file", speaker_wav |-> NonePath,
                    language |-> PyNone]
InvocationN2(c) == [method |-> 2, api |-> "tts", speaker_wav |-> NonePath,
                    language |-> PyNone]

\* a variant in which only the first method's completion counts
TryBlockFirstOnly(c, inv, o) ==
    [c EXCEPT !.ok = ~o.raises /\ c.log = <<>>,
              !.log = Append(@, inv @@ [raised |-> o.raises])]

\* a try block that runs: the invocation is logged, synthesis_successful is set
\* when it completes
TryBlock(c, inv, o) ==
    [c EXCEPT !.ok = ~o.raises,
              !.log = Append(@, inv @@ [raised |-> o.raises])]

\* a variant without the "if not synthesis_successful" check
XttsVerifyFileOnly(c, file) ==
    IF file = "missing" THEN XttsExcept("Synthesis completed but output file not found")
    ELSE IF file = "empty" THEN XttsExcept("Output file is empty")
    ELSE RetPair(TRUE, Msg("Audio successfully saved to", "", c.output_path))

\* a variant without the file size check
XttsVerifyNoSize(c, file) ==
    IF ~c.ok THEN XttsExcept("All synthesis methods failed")
    ELSE IF file = "missing" THEN XttsExcept("Synthesis completed but output file not found")
    ELSE RetPair(TRUE, Msg("Audio successfully saved to", "", c.output_path))

\* lines 338-354: the result once the methods have run
XttsVerify(c, file) ==
    IF ~c.ok THEN XttsExcept("All synthesis methods failed")
    ELSE IF file = "missing" THEN XttsExcept("Synthesis completed but output file not found")
    ELSE IF file = "empty" THEN XttsExcept("Output file is empty")
    ELSE RetPair(TRUE, Msg("Audio successfully saved to", "", c.output_path))

(***************************************************************************)
(* bark_engine.load_bark_model                                             *)
(*   st = [processor, model, device]: the module globals                   *)
(*   b  = what the backend does: whether AutoProcessor.from_pretrained and *)
(*        BarkModel.from_pretrained(...).to(device) complete, and what     *)
(*        torch.cuda.get_device_capability() reports                       *)
(***************************************************************************)
NoProcessor == [key |-> PyNone, id |-> 0]
NoModel == [key |-> PyNone, dev |-> NoDevice, id |-> 0, dtype |-> PyNone]
BarkEmpty == [processor |-> NoProcessor, model |-> NoModel, device |-> NoDevice]
BarkModels == {"suno/bark-small", "suno/bark"}
DEFAULT_BARK_MODEL_NAME == "suno/bark-small"
BarkBehaviours ==
    [processor : BOOLEAN, capability : {"major>=7", "major<7", "raise"}, model : BOOLEAN]

\* what a call that returned the cached pair saw of the backend: nothing
BarkNotConsulted == [processor |-> FALSE, capability |-> "not queried", model |-> FALSE]

BarkCacheHit(st, dev, force_reload) ==
    /\ st.model # NoModel
    /\ st.processor # NoProcessor
    /\ st.device = dev
    /\ ~force_reload

\* a variant that takes every accelerator for a half-precision one
BarkDtypeAnyTier(dev, capability) == IF dev = "cuda" THEN "float16" ELSE "float32"

\* lines 52-62: torch_dtype
BarkDtype(dev, capability) ==
    IF dev = "cuda" /\ capability = "major>=7" THEN "float16" ELSE "float32"

\* lines 74-76
BarkStore(model_name, dev, dtype, id) ==
    [processor |-> [key |-> model_name, id |-> id],
     model |-> [key |-> model_name, dev |-> dev, id |-> id, dtype |-> dtype],
     device |-> dev]

\* lines 79-84
BarkRollback(st) == BarkEmpty

load_bark_model(st, model_name, force_reload, dev, b, id) ==
    IF BarkCacheHit(st, dev, force_reload)
    THEN [st |-> st, ret |-> RetValue([processor |-> st.processor, model |-> st.model]),
          loader |-> FALSE]
    ELSE IF b.processor /\ b.model
    THEN LET st2 == BarkStore(model_name, dev, BarkDtype(dev, b.capability), id) IN
         [st |-> st2, ret |-> RetValue([processor |-> st2.processor, model |-> st2.model]),
          loader |-> TRUE]
    ELSE [st |-> BarkRollback(st), ret |-> Raised("LoaderError"), loader |-> TRUE]

BarkState == [processor |-> bark_loaded_processor, model |-> bark_loaded_model,
              device |-> bark_loaded_device]

(***************************************************************************)
(* bark_engine.synthesize_bark                                             *)
(*   infer: whether processor(...) and model.generate(...) complete        *)
(*   write: what sf.write does: "raise", or the size of the file it leaves *)
(***************************************************************************)
\* the except block (lines 135-140): the error is logged; the return
\* statement is part of the comment that ends line 140, so the function
\* falls off its end
BarkExcept(text) == RetNone

\* sf.write and wave.open need the directory to exist
CanCreate(ds, path) == Dirname(path) = <<>> \/ Dirname(path) \in ds

synthesize_bark(st, ds, output_path, model_name, dev, b, id, infer, write) ==
    LET ld == load_bark_model(st, model_name, FALSE, dev, b, id)
        r0 == [st |-> ld.st, loader |-> ld.loader, file |-> "keep",
               raised |-> TRUE, ret |-> Pending]
    IN
    IF ld.ret.kind = "raise" THEN [r0 EXCEPT !.ret = BarkExcept(ld.ret.exc)]
    ELSE IF ld.ret.value.processor = NoProcessor \/ ld.ret.value.model = NoModel
    THEN [r0 EXCEPT !.ret = BarkExcept("RuntimeError")]
    ELSE IF ~infer THEN [r0 EXCEPT !.ret = BarkExcept("InferenceError")]
    ELSE IF write = "raise" \/ ~CanCreate(ds, output_path)
    THEN [r0 EXCEPT !.ret = BarkExcept("WriteError")]
    ELSE [r0 EXCEPT !.file = write, !.raised = FALSE,
                    !.ret = RetPair(TRUE, Msg("Audio succesvol opgeslagen in", "", output_path))]

(***************************************************************************)
(* piper_engine.load_piper_model                                           *)
(*   voices: loaded_voices; b: what PiperVoice.load does: "ok", "raise",   *)
(*   or "noconfig" (a voice without config.sample_rate)                    *)
(***************************************************************************)
PiperBehaviours == {"ok", "raise", "noconfig"}

PiperCacheHit(voices, onnx_path, force_reload) ==
    onnx_path \in DOMAIN voices /\ ~force_reload

\* lines 26-29, on a cache miss: the exception raised, or PyNone
PiperMissing(fs, onnx_path, json_path) ==
    IF ~IsFile(fs, onnx_path) THEN "FileNotFoundError: ONNX bestand niet gevonden"
    ELSE IF ~IsFile(fs, json_path) THEN "FileNotFoundError: JSON bestand niet gevonden"
    ELSE PyNone

\* lines 43-47
PiperRollback(voices, cache_key) ==
    [k \in DOMAIN voices \ {cache_key} |-> voices[k]]

load_piper_model(voices, onnx_path, json_path, force_reload, fs, b, id) ==
    IF onnx_path = <<>> \/ json_path = <<>>
    THEN [voices |-> voices, ret |-> Raised("ValueError"), loader |-> FALSE]
    ELSE IF PiperCacheHit(voices, onnx_path, force_reload)
    THEN [voices |-> voices, ret |-> RetValue(voices[onnx_path]), loader |-> FALSE]
    ELSE IF PiperMissing(fs, onnx_path, json_path) # PyNone
    THEN [voices |-> voices, ret |-> Raised(PiperMissing(fs, onnx_path, json_path)),
          loader |-> FALSE]
    ELSE IF b = "ok"
    THEN LET v == [key |-> onnx_path, json |-> json_path, id |-> id] IN
         [voices |-> [k \in DOMAIN voices \cup {onnx_path} |->
                         IF k = onnx_path THEN v ELSE voices[k]],
          ret |-> RetValue(v), loader |-> TRUE]
    ELSE [voices |-> PiperRollback(voices, onnx_path),
          ret |-> Raised(IF b = "raise" THEN "LoaderError" ELSE "AttributeError"),
          loader |-> TRUE]

(***************************************************************************)
(* piper_engine.synthesize_piper                                           *)
(*   fail: the statement of the try block that raises, if any:             *)
(*         "open" (wave.open), "header" (setnchannels/setsampwidth/        *)
(*         setframerate), "synthesize" (voice.synthesize) or "none"        *)
(* wave.open creates the file; Wave_write.close() writes the header, and   *)
(* raises when the header parameters were never set.                       *)
(***************************************************************************)
PiperFailures == {"none", "open", "header", "synthesize"}

\* lines 81-83
PiperExcept(text) == RetPair(FALSE, Msg("Piper synthese mislukt", text, <<>>))

\* the finally block (lines 84-88): [closed, raised]
PiperFinally(opened, headerSet) ==
    [closed |-> opened, raised |-> opened /\ ~headerSet]

synthesize_piper(voices, fs, ds, onnx_path, json_path, output_path, b, id, fail) ==
    LET ld == load_piper_model(voices, onnx_path, json_path, FALSE, fs, b, id)
        r0 == [voices |-> ld.voices, loader |-> ld.loader, file |-> "keep",
               voice |-> IF ld.ret.kind = "value" THEN ld.ret.value ELSE NoHandle,
               opened |-> FALSE, closed |-> FALSE, ret |-> Pending]
        final(r, headerSet) ==
            LET f == PiperFinally(r.opened, headerSet) IN
            [r EXCEPT !.closed = f.closed,
                      !.ret = IF f.raised THEN Raised("wave.Error") ELSE @]
    IN
    IF ld.ret.kind = "raise"
    THEN final([r0 EXCEPT !.ret = PiperExcept(ld.ret.exc)], FALSE)
    ELSE IF fail = "open" \/ ~CanCreate(ds, output_path)
    THEN final([r0 EXCEPT !.ret = PiperExcept("OpenError")], FALSE)
    ELSE IF fail = "header"
    THEN final([r0 EXCEPT !.opened = TRUE, !.file = "empty",
                          !.ret = PiperExcept("HeaderError")], FALSE)
    ELSE IF fail = "synthesize"
    THEN final([r0 EXCEPT !.opened = TRUE, !.file = "nonempty",
                          !.ret = PiperExcept("SynthesizeError")], TRUE)
    ELSE final([r0 EXCEPT !.opened = TRUE, !.file = "nonempty",
                          !.ret = RetPair(TRUE, Msg("Audio succesvol opgeslagen in", "",
                                                    output_path))], TRUE)

\* MultiTTSAPI._ensure_output_dir_exists
EnsureOutputDir(ds, output_path) ==
    IF Dirname(output_path) # <<>> /\ Dirname(output_path) \notin ds
    THEN ds \cup {Dirname(output_path)} ELSE ds

\* a file can be written at path: its directory exists
CanSave(ds, path) == Dirname(path) = <<>> \/ Dirname(path) \in ds

\* MultiTTSAPI.synthesize_piper, lines 105-109: the early result, or Pending
ApiPiperCheck(fs, model_onnx_path, model_json_path) ==
    IF ~IsFile(fs, model_onnx_path)
    THEN RetPair(FALSE, Msg("Piper ONNX model not found", "", model_onnx_path))
    ELSE IF ~IsFile(fs, model_json_path)
    THEN RetPair(FALSE, Msg("Piper JSON config not found", "", model_json_path))
    ELSE Pending

\* lines 118-120: what the engine raised becomes a failure pair
ApiExcept(ret) ==
    IF ret.kind = "raise" THEN RetPair(FALSE, Msg("Piper synthesis failed", ret.exc, <<>>))
    ELSE ret

(***************************************************************************)
(* elevenlabs_engine                                                       *)
(***************************************************************************)
ApiKeys == {PyNone, "", "good-key", "bad-key"}
Truthy(x) == x # PyNone /\ x # ""
\* what the client does: the call completes, the service answers with an HTTP
\* error status, the transport fails, or the client cannot even be built
Probes == {"ok", "http401", "http500", "exception", "client_error"}

\* a variant that rejects the key only on a 401 answer
validate_api_key_only401(api_key_to_validate, probe) ==
    IF ~Truthy(api_key_to_validate)
    THEN [ret |-> RetValue(PyNone), remote_calls |-> 0]
    ELSE IF probe = "client_error"
    THEN [ret |-> RetValue(PyNone), remote_calls |-> 0]
    ELSE IF probe = "http401"
    THEN [ret |-> RetValue(PyNone), remote_calls |-> 1]
    ELSE [ret |-> RetValue(api_key_to_validate), remote_calls |-> 1]

\* lines 38-69
validate_api_key(api_key_to_validate, probe) ==
    IF ~Truthy(api_key_to_validate)
    THEN [ret |-> RetValue(PyNone), remote_calls |-> 0]
    ELSE IF probe = "client_error"
    THEN [ret |-> RetValue(PyNone), remote_calls |-> 0]
    ELSE IF probe = "ok"
    THEN [ret |-> RetValue(api_key_to_validate), remote_calls |-> 1]
    ELSE [ret |-> RetValue(PyNone), remote_calls |-> 1]

\* what the client does for a fetch: as Probes, and "value_error" when the
\* client library itself raises a ValueError
FetchOutcomes == {"ok", "http401", "http500", "exception", "value_error", "client_error"}

\* the voices the service can report: v.name and v.voice_id, either of which
\* can be empty
VoiceNames == {"", "Ann", "Bob"}
VoiceIdents == {"", "id1", "id2"}
RemoteVoices == [name : VoiceNames, voice_id : VoiceIdents]
RECURSIVE VoiceListsOfLen(_)
VoiceListsOfLen(n) ==
    IF n = 0 THEN {<<>>}
    ELSE {Append(l, v) : l \in VoiceListsOfLen(n - 1), v \in RemoteVoices}
VoiceLists == UNION {VoiceListsOfLen(n) : n \in 0..MaxVoices}

\* Python's order on the names: by code point
NameRank(name) == IF name = "" THEN 0 ELSE IF name = "Ann" THEN 1 ELSE 2

\* line 96: [(v.name, v.voice_id) for v in voice_list if v.name and v.voice_id]
VoicePairs(voice_list) ==
    LET kept == SelectSeq(voice_list, LAMBDA v : Truthy(v.name) /\ Truthy(v.voice_id)) IN
    [i \in 1..Len(kept) |-> <<kept[i].name, kept[i].voice_id>>]

\* sorted(..., key=lambda item: item[0]): stable, by name
RECURSIVE InsertByName(_, _)
InsertByName(sorted, item) ==
    IF sorted = <<>> THEN <<item>>
    ELSE IF NameRank(sorted[Len(sorted)][1]) <= NameRank(item[1]) THEN Append(sorted, item)
    ELSE Append(InsertByName(SubSeq(sorted, 1, Len(sorted) - 1), item), sorted[Len(sorted)])

RECURSIVE SortedByName(_)
SortedByName(pairs) ==
    IF pairs = <<>> THEN <<>>
    ELSE InsertByName(SortedByName(SubSeq(pairs, 1, Len(pairs) - 1)), pairs[Len(pairs)])

\* a variant that returns the pairs in the order the service gave them
FormatVoicesUnsorted(voice_list) == VoicePairs(voice_list)

\* lines 95-98: formatted_voices
FormatVoices(voice_list) == SortedByName(VoicePairs(voice_list))

\* a variant without the catch-all except clause
get_elevenlabs_voices_no_catch_all(api_key, remote, voice_list) ==
    IF ~Truthy(api_key) THEN [ret |-> Raised("ValueError"), remote_calls |-> 0]
    ELSE IF remote = "client_error" THEN [ret |-> Raised("RuntimeError"), remote_calls |-> 0]
    ELSE IF remote = "ok" THEN [ret |-> RetValue(FormatVoices(voice_list)), remote_calls |-> 1]
    ELSE IF remote = "value_error" THEN [ret |-> Raised("ValueError"), remote_calls |-> 1]
    ELSE [ret |-> Raised("RuntimeError"), remote_calls |-> 1]

\* lines 71-111
get_elevenlabs_voices(api_key, remote, voice_list) ==
    IF ~Truthy(api_key) THEN [ret |-> Raised("ValueError"), remote_calls |-> 0]
    ELSE IF remote = "client_error" THEN [ret |-> Raised("RuntimeError"), remote_calls |-> 0]
    ELSE IF remote = "ok" THEN [ret |-> RetValue(FormatVoices(voice_list)), remote_calls |-> 1]
    ELSE [ret |-> Raised("RuntimeError"), remote_calls |-> 1]

\* lines 114-158
get_subscription_info(api_key, remote) ==
    IF ~Truthy(api_key) THEN [ret |-> Raised("ValueError"), remote_calls |-> 0]
    ELSE IF remote = "client_error" THEN [ret |-> Raised("RuntimeError"), remote_calls |-> 0]
    ELSE IF remote = "ok" THEN [ret |-> RetValue("info_dict"), remote_calls |-> 1]
    ELSE [ret |-> Raised("RuntimeError"), remote_calls |-> 1]

\* lines 160-173: the detail text taken from an error response body
DetailShapes == {"list_msg_loc", "list_msg", "list_empty", "dict_message", "string",
                 "no_detail", "not_json"}
parse_elevenlabs_error_details(shape) ==
    IF shape = "list_msg_loc" THEN "msg (Field: loc)"
    ELSE IF shape = "list_msg" THEN "msg"
    ELSE IF shape = "dict_message" THEN "message"
    ELSE "response.text"

RemoteOutcomes == {"ok", "http401", "http402", "http422", "http500", "exception"}
StatusCode(remote) ==
    IF remote = "http401" THEN 401 ELSE IF remote = "http402" THEN 402
    ELSE IF remote = "http422" THEN 422 ELSE IF remote = "http500" THEN 500 ELSE 0

\* a variant without the 402 branch
ElevenHttpErrorNo402(status_code, error_details) ==
    IF status_code = 401
    THEN [template |-> "ElevenLabs Error: Authentication Error (401): Check API Key.",
          text |-> "", path |-> <<>>, status |-> 0]
    ELSE IF status_code = 422
    THEN [template |-> "ElevenLabs Error: Validation Error (422)",
          text |-> error_details, path |-> <<>>, status |-> 0]
    ELSE [template |-> "ElevenLabs Error: HTTP Error", text |-> error_details,
          path |-> <<>>, status |-> status_code]

\* lines 240-250
ElevenHttpError(status_code, error_details) ==
    IF status_code = 401
    THEN [template |-> "ElevenLabs Error: Authentication Error (401): Check API Key.",
          text |-> "", path |-> <<>>, status |-> 0]
    ELSE IF status_code = 402
    THEN [template |-> "ElevenLabs Error: Quota Error (402): Character limit likely reached.",
          text |-> "", path |-> <<>>, status |-> 0]
    ELSE IF status_code = 422
    THEN [template |-> "ElevenLabs Error: Validation Error (422)",
          text |-> error_details, path |-> <<>>, status |-> 0]
    ELSE [template |-> "ElevenLabs Error: HTTP Error", text |-> error_details,
          path |-> <<>>, status |-> status_code]

Texts == {<<>>, <<" ">>, <<"hi">>}
VoiceIds == {"", "voice-1"}
ElevenModelIds == {"", "eleven_multilingual_v2"}
Conversions == {"ok", "import_error", "raise"}

\* a variant that accepts whitespace-only text
ElevenValidateNoStrip(api_key, text, voice_id, model_id) ==
    IF ~Truthy(api_key)
    THEN RetPair(FALSE, Msg("API key is required for ElevenLabs synthesis.", "", <<>>))
    ELSE IF voice_id = ""
    THEN RetPair(FALSE, Msg("No ElevenLabs voice ID selected.", "", <<>>))
    ELSE IF model_id = ""
    THEN RetPair(FALSE, Msg("No ElevenLabs model ID selected.", "", <<>>))
    ELSE IF text = <<>>
    THEN RetPair(FALSE, Msg("No text entered for synthesis.", "", <<>>))
    ELSE Pending

\* lines 198-202: the early result, or Pending
ElevenValidate(api_key, text, voice_id, model_id) ==
    IF ~Truthy(api_key)
    THEN RetPair(FALSE, Msg("API key is required for ElevenLabs synthesis.", "", <<>>))
    ELSE IF voice_id = ""
    THEN RetPair(FALSE, Msg("No ElevenLabs voice ID selected.", "", <<>>))
    ELSE IF model_id = ""
    THEN RetPair(FALSE, Msg("No ElevenLabs model ID selected.", "", <<>>))
    ELSE IF text = <<>> \/ Strip(text) = <<>>
    THEN RetPair(FALSE, Msg("No text entered for synthesis.", "", <<>>))
    ELSE Pending

\* a variant in which a failed conversion fails the call
ElevenConvertStrict(conv, output_path, output_path_mp3) ==
    IF conv = "ok"
    THEN RetPair(TRUE, Msg("Audio successfully synthesized and saved as WAV in", "",
                           output_path))
    ELSE IF conv = "import_error"
    THEN RetPair(TRUE, Msg("Audio successfully saved (as MP3!) in", "", output_path_mp3))
    ELSE RetPair(FALSE, Msg("ElevenLabs synthesis failed", "ConversionError", <<>>))

\* lines 225-238: the conversion and the result it leads to
ElevenConvert(conv, output_path, output_path_mp3) ==
    IF conv = "ok"
    THEN RetPair(TRUE, Msg("Audio successfully synthesized and saved as WAV in", "",
                           output_path))
    ELSE IF conv = "import_error"
    THEN RetPair(TRUE, Msg("Audio successfully saved (as MP3!) in", "", output_path_mp3))
    ELSE RetPair(TRUE, Msg("Audio successfully saved (as MP3!) in ... Conversion to WAV failed.",
                           "", output_path_mp3))

\* a variant that removes the MP3 once the conversion has succeeded
synthesize_elevenlabs_remove_mp3(ds, api_key, text, voice_id, model_id, output_path, remote, shape, save_ok, conv) ==
    LET r0 == [dirs |-> ds, mp3 |-> "keep", wav |-> "keep", trace |-> <<>>,
               ret |-> ElevenValidate(api_key, text, voice_id, model_id)]
        output_dir == Dirname(output_path)
        mk == output_dir # <<>> /\ output_dir \notin ds
        r1 == [r0 EXCEPT !.dirs = IF mk THEN ds \cup {output_dir} ELSE ds,
                         !.trace = (IF mk THEN <<"makedirs">> ELSE <<>>) \o <<"remote">>]
    IN
    IF r0.ret # Pending THEN r0
    ELSE IF remote = "exception"
    THEN [r1 EXCEPT !.ret = RetPair(FALSE, Msg("ElevenLabs synthesis failed", "RemoteError", <<>>))]
    ELSE IF remote # "ok"
    THEN [r1 EXCEPT !.ret = RetPair(FALSE, ElevenHttpError(StatusCode(remote),
                                             parse_elevenlabs_error_details(shape)))]
    ELSE IF ~save_ok
    THEN [r1 EXCEPT !.ret = RetPair(FALSE, Msg("ElevenLabs synthesis failed", "SaveError", <<>>)),
                    !.trace = @ \o <<"save_failed">>]
    ELSE [r1 EXCEPT !.mp3 = IF conv = "ok" THEN "missing" ELSE "nonempty",
                    !.wav = IF conv = "ok" THEN "nonempty" ELSE "keep",
                    !.trace = @ \o <<"save">> \o
                              (IF conv = "import_error" THEN <<>> ELSE <<"convert">>),
                    !.ret = ElevenConvert(conv, output_path, Mp3Path(output_path))]

\* the whole function.  trace: what it did, in order
synthesize_elevenlabs(ds, api_key, text, voice_id, model_id, output_path, remote, shape, save_ok, conv) ==
    LET r0 == [dirs |-> ds, mp3 |-> "keep", wav |-> "keep", trace |-> <<>>,
               ret |-> ElevenValidate(api_key, text, voice_id, model_id)]
        output_dir == Dirname(output_path)
        mk == output_dir # <<>> /\ output_dir \notin ds
        r1 == [r0 EXCEPT !.dirs = IF mk THEN ds \cup {output_dir} ELSE ds,
                         !.trace = (IF mk THEN <<"makedirs">> ELSE <<>>) \o <<"remote">>]
    IN
    IF r0.ret # Pending THEN r0
    ELSE IF remote = "exception"
    THEN [r1 EXCEPT !.ret = RetPair(FALSE, Msg("ElevenLabs synthesis failed", "RemoteError", <<>>))]
    ELSE IF remote # "ok"
    THEN [r1 EXCEPT !.ret = RetPair(FALSE, ElevenHttpError(StatusCode(remote),
                                             parse_elevenlabs_error_details(shape)))]
    ELSE IF ~save_ok
    THEN [r1 EXCEPT !.ret = RetPair(FALSE, Msg("ElevenLabs synthesis failed", "SaveError", <<>>)),
                    !.trace = @ \o <<"save_failed">>]
    ELSE [r1 EXCEPT !.mp3 = "nonempty",
                    !.wav = IF conv = "ok" THEN "nonempty" ELSE "keep",
                    !.trace = @ \o <<"save">> \o
                              (IF conv = "import_error" THEN <<>> ELSE <<"convert">>),
                    !.ret = ElevenConvert(conv, output_path, Mp3Path(output_path))]

(***************************************************************************)
(* The credential cell: MultiTTSAPI (api/tts_api.py) and TTSApp (app.py)   *)
(***************************************************************************)
\* MultiTTSAPI.validate_elevenlabs_key, lines 157-174: the cell afterwards and
\* the boolean returned
validate_elevenlabs_key(stored, api_key, probe) ==
    LET validated_key == validate_api_key(api_key, probe).ret.value IN
    IF Truthy(validated_key)
    THEN [stored |-> validated_key, ret |-> RetValue(TRUE)]
    ELSE [stored |-> stored, ret |-> RetValue(FALSE)]

\* TTSApp._set_active_elevenlabs_key, app.py lines 519-542
set_active_elevenlabs_key(stored, key_to_set, probe) ==
    LET validated_key == validate_api_key(key_to_set, probe).ret.value IN
    IF Truthy(validated_key)
    THEN [stored |-> validated_key, ret |-> RetValue(TRUE)]
    ELSE [stored |-> PyNone, ret |-> RetValue(FALSE)]

\* a variant that prefers the stored key to the one passed
KeyToUseStoredFirst(api_key, stored) == IF Truthy(stored) THEN stored ELSE api_key

\* key_to_use = api_key or self._current_elevenlabs_key
KeyToUse(api_key, stored) == IF Truthy(api_key) THEN api_key ELSE stored

\* MultiTTSAPI.get_elevenlabs_voices (lines 176-199) and
\* get_elevenlabs_subscription_info (lines 213-232): r is what the engine
\* function does with the key used
ApiFetch(api_key, stored, r) ==
    IF ~Truthy(KeyToUse(api_key, stored))
    THEN [key_used |-> PyNone, engine_called |-> FALSE, remote_calls |-> 0,
          ret |-> Raised("ValueError")]
    ELSE [key_used |-> KeyToUse(api_key, stored), engine_called |-> TRUE,
          remote_calls |-> r.remote_calls, ret |-> r.ret]

(***************************************************************************)
(* Initial state: nothing loaded, no output yet; the speaker sample and    *)
(* the Piper model are on disk; the output directory may or may not exist. *)
(***************************************************************************)
NoCall == [fn |-> "none", ret |-> Pending]
NoPrev == [fn |-> "none", key |-> PyNone, device |-> NoDevice, ok |-> FALSE,
           handle |-> NoHandle]

\* what a load call remembers of the call before it
PrevLoad(c) ==
    IF c.fn \in {"load_xtts_model", "load_bark_model", "load_piper_model"}
    THEN [fn |-> c.fn, key |-> c.key, device |-> c.device, ok |-> c.ret.kind = "value",
          handle |-> IF c.ret.kind = "value" THEN c.ret.value ELSE NoHandle]
    ELSE NoPrev

\* the worker threads (web_app.py starts one per synthesis job, app.py one
\* per synthesis) and a thread that runs no load call
Threads == {1, 2}
IdleThread == [pc |-> "idle", fn |-> "none", key |-> PyNone, device |-> NoDevice, id |-> 0,
               ret |-> Pending]

Init ==
    /\ cuda_available \in BOOLEAN
    /\ files = [p \in AllPaths |->
                   IF p \in {SpeakerFile} \cup PiperArtifacts THEN "nonempty" ELSE "missing"]
    /\ dirs \in {{}, {<<"out">>}}
    /\ loadCount = 0
    /\ xtts_loaded_models = <<>>
    /\ xtts_loaded_device = NoDevice
    /\ bark_loaded_processor = NoProcessor
    /\ bark_loaded_model = NoModel
    /\ bark_loaded_device = NoDevice
    /\ piper_loaded_voices = <<>>
    /\ api_current_elevenlabs_key = PyNone
    /\ app_current_elevenlabs_key = PyNone
    /\ threads = [t \in Threads |-> IdleThread]
    /\ synthesis_jobs = <<>>
    /\ web_workers = <<>>
    /\ gui_ui_state = "normal"
    /\ gui_workers = <<>>
    /\ gui_after_queue = <<>>
    /\ elevenlabs_voices = <<>>
    /\ engine = "none"
    /\ pc = "idle"
    /\ call = NoCall

(***************************************************************************)
(* Environment                                                             *)
(***************************************************************************)
\* the accelerator becomes available or unavailable between calls
DeviceChange ==
    /\ pc = "idle"
    /\ cuda_available' = ~cuda_available
    /\ UNCHANGED <<files, dirs, loadCount, xttsVars, barkVars, credVars, threads, webVars, guiVars, piperVars, engine, pc, call>>

\* a Piper model file is removed from disk, or put back, between calls
ArtifactChange ==
    /\ pc = "idle"
    /\ \E p \in PiperArtifacts :
          files' = [files EXCEPT ![p] = IF @ = "missing" THEN "nonempty" ELSE "missing"]
    /\ UNCHANGED <<cuda_available, dirs, loadCount, xttsVars, barkVars, credVars, threads, webVars, guiVars, piperVars, engine,
                   pc, call>>

\* the caller takes the result of a synthesize call; the next call can start
ReturnToCaller ==
    /\ pc = "returned"
    /\ pc' = "idle"
    /\ call' = NoCall
    /\ UNCHANGED <<envVars, loadCount, xttsVars, barkVars, credVars, threads, webVars, guiVars, piperVars, engine>>

\* a call into engine e: the run's engine is e from then on
Uses(e) == engine \in {"none", e} /\ engine' = e

\* a completed loader call is counted; MaxLoads bounds them
Counted(loader) ==
    /\ loader => loadCount < MaxLoads
    /\ loadCount' = IF loader THEN loadCount + 1 ELSE loadCount

(***************************************************************************)
(* Calls into xtts_engine                                                  *)
(***************************************************************************)
CallLoadXtts ==
    /\ pc = "idle"
    /\ Uses("xtts")
    /\ \E model_key \in ModelKeys, force_reload \in BOOLEAN, loaderOK \in BOOLEAN :
        LET r == load_xtts_model(XttsState, model_key, force_reload, get_device,
                                 loaderOK, loadCount + 1)
        IN
        /\ Counted(r.loader)
        /\ xtts_loaded_models' = r.st.models
        /\ xtts_loaded_device' = r.st.device
        /\ call' = [fn |-> "load_xtts_model", key |-> model_key,
                    force_reload |-> force_reload, device |-> get_device,
                    cached_before |-> IF model_key \in DOMAIN xtts_loaded_models
                                      THEN xtts_loaded_models[model_key] ELSE NoHandle,
                    prev |-> PrevLoad(call), loader |-> r.loader, ret |-> r.ret]
        /\ UNCHANGED <<envVars, barkVars, credVars, threads, webVars, guiVars, piperVars, pc>>

XttsSynthStart ==
    /\ pc = "idle"
    /\ Uses("xtts")
    /\ \E model_key \in ModelKeys, language \in Langs, speaker_wav_path \in SpeakerInputs,
          output_path \in OutPaths, loaderOK \in BOOLEAN :
        LET r == XttsPrelude(XttsState, files, speaker_wav_path, language, output_path,
                             model_key, get_device, loaderOK, loadCount + 1)
        IN
        /\ Counted(r.loader)
        /\ xtts_loaded_models' = r.st.models
        /\ xtts_loaded_device' = r.st.device
        /\ dirs' = IF r.mkdir THEN dirs \cup {Dirname(output_path)} ELSE dirs
        /\ pc' = IF r.ret # Pending THEN "returned"
                 ELSE IF IsXttsBranch(model_key) THEN "m1" ELSE "n1"
        /\ call' = [fn |-> "synthesize_xtts", model_key |-> model_key,
                    requested_language |-> language, language |-> r.language,
                    valid_speaker_wav |-> r.spk, output_path |-> output_path,
                    model |-> r.model, loader |-> r.loader,
                    ok |-> FALSE, log |-> <<>>, ret |-> r.ret]
        /\ UNCHANGED <<cuda_available, files, barkVars, credVars, threads, webVars, guiVars, piperVars>>

\* one try block of the running call: skipped when its guard is false, else
\* the backend is invoked and does one of Outcomes
XttsStep(at, guard, inv, next) ==
    /\ pc = at
    /\ pc' = next
    /\ IF guard
       THEN \E o \in Outcomes :
               /\ call' = TryBlock(call, inv, o)
               /\ files' = IF o.file = "keep" THEN files
                           ELSE [files EXCEPT ![call.output_path] = o.file]
       ELSE UNCHANGED <<call, files>>
    /\ UNCHANGED <<cuda_available, dirs, loadCount, xttsVars, barkVars, credVars, threads, webVars, guiVars, piperVars, engine>>

XttsMethod1 == XttsStep("m1", Guard1(call), Invocation1(call), "m2")
XttsMethod2 == XttsStep("m2", Guard2(call), Invocation2(call), "m3")
XttsMethod3 == XttsStep("m3", Guard3(call), Invocation3(call), "m4")
XttsMethod4 == XttsStep("m4", Guard4(call), Invocation4(call), "verify")
NonXttsTry1 == XttsStep("n1", TRUE, InvocationN1(call), "n2")
NonXttsTry2 == XttsStep("n2", ~call.ok, InvocationN2(call), "verify")

XttsSynthReturn ==
    /\ pc = "verify"
    /\ pc' = "returned"
    /\ call' = [call EXCEPT !.ret = XttsVerify(call, files[call.output_path])]
    /\ UNCHANGED <<envVars, loadCount, xttsVars, barkVars, credVars, threads, webVars, guiVars, piperVars, engine>>

(***************************************************************************)
(* Calls into bark_engine                                                  *)
(***************************************************************************)
CallLoadBark ==
    /\ pc = "idle"
    /\ Uses("bark")
    /\ \E model_name \in BarkModels, force_reload \in BOOLEAN, b \in BarkBehaviours :
        LET r == load_bark_model(BarkState, model_name, force_reload, get_device, b,
                                 loadCount + 1)
        IN
        /\ Counted(r.loader)
        /\ bark_loaded_processor' = r.st.processor
        /\ bark_loaded_model' = r.st.model
        /\ bark_loaded_device' = r.st.device
        /\ call' = [fn |-> "load_bark_model", key |-> model_name,
                    force_reload |-> force_reload, device |-> get_device,
                    cached_before |-> bark_loaded_model,
                    b |-> IF r.loader THEN b ELSE BarkNotConsulted,
                    prev |-> PrevLoad(call), loader |-> r.loader, ret |-> r.ret]
        /\ UNCHANGED <<envVars, xttsVars, credVars, threads, webVars, guiVars, piperVars, pc>>

CallSynthesizeBark ==
    /\ pc = "idle"
    /\ Uses("bark")
    /\ \E model_name \in BarkModels, output_path \in OutPaths, b \in BarkBehaviours,
          infer \in BOOLEAN, write \in {"raise", "empty", "nonempty"} :
        LET r == synthesize_bark(BarkState, dirs, output_path, model_name, get_device, b,
                                 loadCount + 1, infer, write)
        IN
        /\ Counted(r.loader)
        /\ bark_loaded_processor' = r.st.processor
        /\ bark_loaded_model' = r.st.model
        /\ bark_loaded_device' = r.st.device
        /\ files' = IF r.file = "keep" THEN files
                    ELSE [files EXCEPT ![output_path] = r.file]
        /\ pc' = "returned"
        /\ call' = [fn |-> "synthesize_bark", model_name |-> model_name,
                    output_path |-> output_path, loader |-> r.loader,
                    raised |-> r.raised, ret |-> r.ret]
        /\ UNCHANGED <<cuda_available, dirs, xttsVars, credVars, threads, webVars, guiVars, piperVars>>

\* the backend loads, or its from_pretrained raises
BarkLoads == {b \in BarkBehaviours : b.processor /\ b.capability = "major>=7"}

\* synthesize_bark called with the path as the caller typed it
CallSynthesizeBarkTyped ==
    /\ pc = "idle"
    /\ Uses("bark")
    /\ \E model_name \in {DEFAULT_BARK_MODEL_NAME}, output_path \in TypedPaths,
          b \in BarkLoads, infer \in BOOLEAN, write \in {"raise", "nonempty"} :
        LET r == synthesize_bark(BarkState, dirs, output_path, model_name, get_device, b,
                                 loadCount + 1, infer, write)
        IN
        /\ Counted(r.loader)
        /\ bark_loaded_processor' = r.st.processor
        /\ bark_loaded_model' = r.st.model
        /\ bark_loaded_device' = r.st.device
        /\ files' = IF r.file = "keep" THEN files
                    ELSE [files EXCEPT ![output_path] = r.file]
        /\ pc' = "returned"
        /\ call' = [fn |-> "synthesize_bark", model_name |-> model_name,
                    output_path |-> output_path, loader |-> r.loader,
                    raised |-> r.raised, ret |-> r.ret]
        /\ UNCHANGED <<cuda_available, dirs, xttsVars, credVars, threads, webVars, guiVars, piperVars>>

\* TTSApp.start_synthesis_thread and run_synthesis with the Bark engine: the
\* typed path is given its extension, then the engine is called; whatever
\* is not a pair ends in the worker's except clause
AppSynthesizeBark ==
    /\ pc = "idle"
    /\ Uses("bark")
    /\ \E typed \in TypedPaths, b \in BarkLoads, infer \in BOOLEAN,
          write \in {"raise", "nonempty"} :
        LET output_path == EnsureWavTarget(typed)
            r == synthesize_bark(BarkState, dirs, output_path, DEFAULT_BARK_MODEL_NAME,
                                 get_device, b, loadCount + 1, infer, write)
        IN
        /\ Counted(r.loader)
        /\ bark_loaded_processor' = r.st.processor
        /\ bark_loaded_model' = r.st.model
        /\ bark_loaded_device' = r.st.device
        /\ files' = IF r.file = "keep" THEN files
                    ELSE [files EXCEPT ![output_path] = r.file]
        /\ pc' = "returned"
        /\ call' = [fn |-> "TTSApp.run_synthesis", typed |-> typed,
                    output_path |-> output_path, loader |-> r.loader,
                    raised |-> r.raised,
                    ret |-> IF r.ret.kind = "pair" THEN r.ret
                            ELSE RetPair(FALSE, Msg("Unexpected error during synthesis",
                                                    "TypeError", <<>>))]
        /\ UNCHANGED <<cuda_available, dirs, xttsVars, credVars, threads, webVars, guiVars, piperVars>>

(***************************************************************************)
(* Calls into piper_engine, and MultiTTSAPI.synthesize_piper               *)
(***************************************************************************)
PiperCached(onnx_path) ==
    IF onnx_path \in DOMAIN piper_loaded_voices
    THEN piper_loaded_voices[onnx_path] ELSE NoHandle

CallLoadPiper ==
    /\ pc = "idle"
    /\ Uses("piper")
    /\ \E onnx_path \in {<<>>, PiperOnnx}, json_path \in {<<>>} \cup PiperJsons,
          force_reload \in BOOLEAN, b \in PiperBehaviours :
        LET r == load_piper_model(piper_loaded_voices, onnx_path, json_path, force_reload,
                                  files, b, loadCount + 1)
        IN
        /\ Counted(r.loader)
        /\ piper_loaded_voices' = r.voices
        /\ call' = [fn |-> "load_piper_model", key |-> onnx_path, json_path |-> json_path,
                    force_reload |-> force_reload, device |-> NoDevice,
                    cached_before |-> PiperCached(onnx_path),
                    prev |-> PrevLoad(call), loader |-> r.loader, ret |-> r.ret]
        /\ UNCHANGED <<envVars, xttsVars, barkVars, credVars, threads, webVars, guiVars, pc>>

\* the record of a synthesize_piper call, made directly or through the API
PiperCall(fn, onnx_path, json_path, output_path, r) ==
    [fn |-> fn, onnx_path |-> onnx_path, json_path |-> json_path,
     output_path |-> output_path,
     on_disk |-> IsFile(files, onnx_path) /\ IsFile(files, json_path),
     cached_before |-> PiperCached(onnx_path),
     loader |-> r.loader, voice |-> r.voice, opened |-> r.opened, closed |-> r.closed,
     ret |-> r.ret]

CallSynthesizePiper ==
    /\ pc = "idle"
    /\ Uses("piper")
    /\ \E json_path \in PiperJsons, output_path \in OutPaths, b \in PiperBehaviours,
          fail \in PiperFailures :
        LET r == synthesize_piper(piper_loaded_voices, files, dirs, PiperOnnx, json_path,
                                  output_path, b, loadCount + 1, fail)
        IN
        /\ Counted(r.loader)
        /\ piper_loaded_voices' = r.voices
        /\ files' = IF r.file = "keep" THEN files
                    ELSE [files EXCEPT ![output_path] = r.file]
        /\ pc' = "returned"
        /\ call' = PiperCall("synthesize_piper", PiperOnnx, json_path, output_path, r)
        /\ UNCHANGED <<cuda_available, dirs, xttsVars, barkVars, credVars, threads, webVars, guiVars>>

CallApiSynthesizePiper ==
    /\ pc = "idle"
    /\ Uses("piper")
    /\ \E json_path \in PiperJsons, output_path \in OutPaths, b \in PiperBehaviours,
          fail \in PiperFailures :
        LET ds == EnsureOutputDir(dirs, output_path)
            early == ApiPiperCheck(files, PiperOnnx, json_path)
            r == synthesize_piper(piper_loaded_voices, files, ds, PiperOnnx, json_path,
                                  output_path, b, loadCount + 1, fail)
            none == [loader |-> FALSE, voice |-> NoHandle, opened |-> FALSE,
                     closed |-> FALSE, ret |-> early]
        IN
        /\ dirs' = ds
        /\ IF early # Pending
           THEN /\ call' = PiperCall("MultiTTSAPI.synthesize_piper", PiperOnnx, json_path,
                                     output_path, none)
                /\ UNCHANGED <<files, loadCount, piperVars>>
           ELSE /\ Counted(r.loader)
                /\ piper_loaded_voices' = r.voices
                /\ files' = IF r.file = "keep" THEN files
                            ELSE [files EXCEPT ![output_path] = r.file]
                /\ call' = PiperCall("MultiTTSAPI.synthesize_piper", PiperOnnx, json_path,
                                     output_path, [r EXCEPT !.ret = ApiExcept(r.ret)])
        /\ pc' = "returned"
        /\ UNCHANGED <<cuda_available, xttsVars, barkVars, credVars, threads, webVars, guiVars>>

(***************************************************************************)
(* Calls into elevenlabs_engine                                            *)
(***************************************************************************)
CallValidateApiKey ==
    /\ pc = "idle"
    /\ Uses("elevenlabs")
    /\ \E candidate \in ApiKeys, probe \in Probes :
        LET r == validate_api_key(candidate, probe) IN
        /\ call' = [fn |-> "validate_api_key", candidate |-> candidate, probe |-> probe,
                    remote_calls |-> r.remote_calls, ret |-> r.ret]
        /\ pc' = "returned"
    /\ UNCHANGED <<envVars, loadCount, xttsVars, barkVars, credVars, threads, webVars, guiVars, piperVars>>

CallGetElevenlabsVoices ==
    /\ pc = "idle"
    /\ Uses("elevenlabs")
    /\ \E api_key \in ApiKeys, remote \in FetchOutcomes :
        \E voice_list \in IF Truthy(api_key) /\ remote = "ok" THEN VoiceLists ELSE {<<>>} :
        LET r == get_elevenlabs_voices(api_key, remote, voice_list) IN
        /\ call' = [fn |-> "get_elevenlabs_voices", api_key |-> api_key, remote |-> remote,
                    voice_list |-> voice_list,
                    remote_calls |-> r.remote_calls, ret |-> r.ret]
        /\ pc' = "returned"
    /\ UNCHANGED <<envVars, loadCount, xttsVars, barkVars, credVars, threads, webVars, guiVars, piperVars>>

CallGetSubscriptionInfo ==
    /\ pc = "idle"
    /\ Uses("elevenlabs")
    /\ \E api_key \in ApiKeys, remote \in FetchOutcomes :
        LET r == get_subscription_info(api_key, remote) IN
        /\ call' = [fn |-> "get_subscription_info", api_key |-> api_key, remote |-> remote,
                    remote_calls |-> r.remote_calls, ret |-> r.ret]
        /\ pc' = "returned"
    /\ UNCHANGED <<envVars, loadCount, xttsVars, barkVars, credVars, threads, webVars, guiVars, piperVars>>

CallSynthesizeElevenlabs ==
    /\ pc = "idle"
    /\ Uses("elevenlabs")
    /\ \E api_key \in ApiKeys, text \in Texts, voice_id \in VoiceIds,
          model_id \in ElevenModelIds, output_path \in ElevenOutPaths :
        \E remote \in IF ElevenValidate(api_key, text, voice_id, model_id) = Pending
                      THEN RemoteOutcomes ELSE {"ok"} :
        \E shape \in IF remote \in {"ok", "exception"} THEN {"string"} ELSE DetailShapes,
           save_ok \in IF remote # "ok" THEN {TRUE}
                       ELSE IF CanSave(EnsureOutputDir(dirs, output_path), Mp3Path(output_path))
                       THEN BOOLEAN ELSE {FALSE},
           conv \in IF remote = "ok" THEN Conversions ELSE {"ok"} :
        LET r == synthesize_elevenlabs(dirs, api_key, text, voice_id, model_id, output_path,
                                       remote, shape, save_ok, conv)
        IN
        /\ dirs' = r.dirs
        /\ files' = [p \in AllPaths |->
                        IF p = Mp3Path(output_path) /\ r.mp3 # "keep" THEN r.mp3
                        ELSE IF p = output_path /\ r.wav # "keep" THEN r.wav
                        ELSE files[p]]
        /\ call' = [fn |-> "synthesize_elevenlabs", api_key |-> api_key, text |-> text,
                    voice_id |-> voice_id, model_id |-> model_id,
                    output_path |-> output_path, remote |-> remote, shape |-> shape,
                    conv |-> conv, trace |-> r.trace, ret |-> r.ret]
        /\ pc' = "returned"
    /\ UNCHANGED <<cuda_available, loadCount, xttsVars, barkVars, credVars, threads, webVars, guiVars, piperVars>>

(***************************************************************************)
(* Calls into MultiTTSAPI and TTSApp that read or write the credential     *)
(***************************************************************************)
ApiValidateElevenlabsKey ==
    /\ pc = "idle"
    /\ Uses("elevenlabs")
    /\ \E api_key \in ApiKeys, probe \in Probes :
        LET r == validate_elevenlabs_key(api_current_elevenlabs_key, api_key, probe) IN
        /\ api_current_elevenlabs_key' = r.stored
        /\ call' = [fn |-> "MultiTTSAPI.validate_elevenlabs_key", candidate |-> api_key,
                    probe |-> probe, stored_before |-> api_current_elevenlabs_key,
                    ret |-> r.ret]
        /\ pc' = "returned"
    /\ UNCHANGED <<envVars, loadCount, xttsVars, barkVars, piperVars,
                   app_current_elevenlabs_key, threads, webVars, guiVars>>

AppSetActiveElevenlabsKey ==
    /\ pc = "idle"
    /\ Uses("elevenlabs")
    /\ \E key_to_set \in ApiKeys, probe \in Probes :
        LET r == set_active_elevenlabs_key(app_current_elevenlabs_key, key_to_set, probe) IN
        /\ app_current_elevenlabs_key' = r.stored
        /\ call' = [fn |-> "TTSApp._set_active_elevenlabs_key", candidate |-> key_to_set,
                    probe |-> probe, stored_before |-> app_current_elevenlabs_key,
                    ret |-> r.ret]
        /\ pc' = "returned"
    /\ UNCHANGED <<envVars, loadCount, xttsVars, barkVars, piperVars,
                   api_current_elevenlabs_key, threads, webVars, guiVars>>

\* the catalog the service reports to the MultiTTSAPI calls
SampleVoices == <<[name |-> "Bob", voice_id |-> "id2"], [name |-> "Ann", voice_id |-> "id1"]>>

\* the record of a MultiTTSAPI call that needs a key
ApiKeyCall(fn, api_key, r) ==
    [fn |-> fn, api_key |-> api_key, stored_before |-> api_current_elevenlabs_key,
     key_used |-> r.key_used, engine_called |-> r.engine_called,
     remote_calls |-> r.remote_calls, ret |-> r.ret]

ApiGetElevenlabsVoices ==
    /\ pc = "idle"
    /\ Uses("elevenlabs")
    /\ \E api_key \in ApiKeys, remote \in FetchOutcomes :
        LET key == KeyToUse(api_key, api_current_elevenlabs_key)
            r == ApiFetch(api_key, api_current_elevenlabs_key,
                          get_elevenlabs_voices(key, remote, SampleVoices))
        IN
        /\ call' = ApiKeyCall("MultiTTSAPI.get_elevenlabs_voices", api_key, r)
        /\ pc' = "returned"
    /\ UNCHANGED <<envVars, loadCount, xttsVars, barkVars, credVars, threads, webVars, guiVars, piperVars>>

ApiGetElevenlabsSubscriptionInfo ==
    /\ pc = "idle"
    /\ Uses("elevenlabs")
    /\ \E api_key \in ApiKeys, remote \in FetchOutcomes :
        LET key == KeyToUse(api_key, api_current_elevenlabs_key)
            r == ApiFetch(api_key, api_current_elevenlabs_key,
                          get_subscription_info(key, remote))
        IN
        /\ call' = ApiKeyCall("MultiTTSAPI.get_elevenlabs_subscription_info", api_key, r)
        /\ pc' = "returned"
    /\ UNCHANGED <<envVars, loadCount, xttsVars, barkVars, credVars, threads, webVars, guiVars, piperVars>>

\* MultiTTSAPI.synthesize_elevenlabs, lines 234-274, with a valid text, voice
\* and model
ApiSynthesizeElevenlabs ==
    /\ pc = "idle"
    /\ Uses("elevenlabs")
    /\ \E api_key \in ApiKeys, output_path \in OutPaths, remote \in {"ok", "http401"} :
        LET key == KeyToUse(api_key, api_current_elevenlabs_key)
            ds == EnsureOutputDir(dirs, output_path)
            e == synthesize_elevenlabs(ds, key, <<"hi">>, "voice-1", "eleven_multilingual_v2",
                                       output_path, remote, "string", TRUE, "ok")
            r == ApiFetch(api_key, api_current_elevenlabs_key,
                          [remote_calls |-> 1, ret |-> e.ret])
        IN
        /\ call' = ApiKeyCall("MultiTTSAPI.synthesize_elevenlabs", api_key, r)
        /\ dirs' = IF r.engine_called THEN e.dirs ELSE dirs
        /\ files' = [p \in AllPaths |->
                        IF ~r.engine_called THEN files[p]
                        ELSE IF p = Mp3Path(output_path) /\ e.mp3 # "keep" THEN e.mp3
                        ELSE IF p = output_path /\ e.wav # "keep" THEN e.wav
                        ELSE files[p]]
        /\ pc' = "returned"
    /\ UNCHANGED <<cuda_available, loadCount, xttsVars, barkVars, credVars, threads, webVars, guiVars, piperVars>>

(***************************************************************************)
(* load_bark_model and load_xtts_model called from worker threads, one     *)
(* statement that reads or writes a module global per step.  Neither       *)
(* module takes a lock.                                                    *)
(***************************************************************************)
\* thread t moves on with the record r
ThreadStep(t, r) == threads' = [threads EXCEPT ![t] = r]

\* no load call is running
Quiescent == \A t \in Threads : threads[t].pc \in {"idle", "done"}

\* lines 33-36: device = get_device() and the cache test
BarkThreadCall(t) ==
    /\ pc = "idle" /\ threads[t].pc = "idle"
    /\ Uses("bark")
    /\ ThreadStep(t, [pc |-> IF BarkCacheHit(BarkState, get_device, FALSE)
                             THEN "return_processor" ELSE "load",
                      fn |-> "load_bark_model", key |-> DEFAULT_BARK_MODEL_NAME,
                      device |-> get_device, id |-> 0,
                      processor |-> NoProcessor, model |-> NoModel, ret |-> Pending])
    /\ UNCHANGED <<envVars, loadCount, xttsVars, barkVars, piperVars, credVars, webVars, guiVars, pc, call>>

\* lines 47-64: the two from_pretrained calls; the objects are locals
BarkThreadLoad(t) ==
    /\ pc = "idle" /\ threads[t].pc = "load" /\ threads[t].fn = "load_bark_model"
    /\ Counted(TRUE)
    /\ \E ok \in BOOLEAN :
          ThreadStep(t, [threads[t] EXCEPT !.pc = IF ok THEN "store_processor"
                                                  ELSE "except_processor",
                                           !.id = IF ok THEN loadCount + 1 ELSE 0])
    /\ UNCHANGED <<envVars, xttsVars, barkVars, piperVars, credVars, webVars, guiVars, engine, pc, call>>

\* the objects thread t loaded
BarkLocals(t) ==
    BarkStore(threads[t].key, threads[t].device, BarkDtype(threads[t].device, "major>=7"), threads[t].id)

\* line 74: loaded_processor = processor
BarkThreadStoreProcessor(t) ==
    /\ pc = "idle" /\ threads[t].pc = "store_processor"
    /\ bark_loaded_processor' = BarkLocals(t).processor
    /\ ThreadStep(t, [threads[t] EXCEPT !.pc = "store_model"])
    /\ UNCHANGED <<envVars, loadCount, xttsVars, bark_loaded_model, bark_loaded_device,
                   piperVars, credVars, webVars, guiVars, engine, pc, call>>

\* line 75: loaded_model = model
BarkThreadStoreModel(t) ==
    /\ pc = "idle" /\ threads[t].pc = "store_model"
    /\ bark_loaded_model' = BarkLocals(t).model
    /\ ThreadStep(t, [threads[t] EXCEPT !.pc = "store_device"])
    /\ UNCHANGED <<envVars, loadCount, xttsVars, bark_loaded_processor, bark_loaded_device,
                   piperVars, credVars, webVars, guiVars, engine, pc, call>>

\* line 76: loaded_device = device
BarkThreadStoreDevice(t) ==
    /\ pc = "idle" /\ threads[t].pc = "store_device"
    /\ bark_loaded_device' = threads[t].device
    /\ ThreadStep(t, [threads[t] EXCEPT !.pc = "return_processor"])
    /\ UNCHANGED <<envVars, loadCount, xttsVars, bark_loaded_processor, bark_loaded_model,
                   piperVars, credVars, webVars, guiVars, engine, pc, call>>

\* lines 38 and 78, `return loaded_processor, loaded_model`: the first global is read
BarkThreadReturnProcessor(t) ==
    /\ pc = "idle" /\ threads[t].pc = "return_processor"
    /\ ThreadStep(t, [threads[t] EXCEPT !.pc = "return_model",
                                        !.processor = bark_loaded_processor])
    /\ UNCHANGED <<envVars, loadCount, xttsVars, barkVars, piperVars, credVars, webVars, guiVars, engine, pc, call>>

\* the second global is read and the pair returned
BarkThreadReturnModel(t) ==
    /\ pc = "idle" /\ threads[t].pc = "return_model"
    /\ ThreadStep(t, [threads[t] EXCEPT !.pc = "done", !.model = bark_loaded_model,
                          !.ret = RetValue([processor |-> threads[t].processor,
                                            model |-> bark_loaded_model])])
    /\ UNCHANGED <<envVars, loadCount, xttsVars, barkVars, piperVars, credVars, webVars, guiVars, engine, pc, call>>

\* line 81: loaded_processor = None
BarkThreadExceptProcessor(t) ==
    /\ pc = "idle" /\ threads[t].pc = "except_processor"
    /\ bark_loaded_processor' = BarkRollback(BarkState).processor
    /\ ThreadStep(t, [threads[t] EXCEPT !.pc = "except_model"])
    /\ UNCHANGED <<envVars, loadCount, xttsVars, bark_loaded_model, bark_loaded_device,
                   piperVars, credVars, webVars, guiVars, engine, pc, call>>

\* line 82: loaded_model = None
BarkThreadExceptModel(t) ==
    /\ pc = "idle" /\ threads[t].pc = "except_model"
    /\ bark_loaded_model' = BarkRollback(BarkState).model
    /\ ThreadStep(t, [threads[t] EXCEPT !.pc = "except_device"])
    /\ UNCHANGED <<envVars, loadCount, xttsVars, bark_loaded_processor, bark_loaded_device,
                   piperVars, credVars, webVars, guiVars, engine, pc, call>>

\* lines 83-84: loaded_device = None; raise
BarkThreadExceptDevice(t) ==
    /\ pc = "idle" /\ threads[t].pc = "except_device"
    /\ bark_loaded_device' = BarkRollback(BarkState).device
    /\ ThreadStep(t, [threads[t] EXCEPT !.pc = "done", !.ret = Raised("LoaderError")])
    /\ UNCHANGED <<envVars, loadCount, xttsVars, bark_loaded_processor, bark_loaded_model,
                   piperVars, credVars, webVars, guiVars, engine, pc, call>>

\* xtts_engine lines 109-112: device = get_device() and the cache test
XttsThreadCall(t) ==
    /\ pc = "idle" /\ threads[t].pc = "idle"
    /\ Uses("xtts")
    /\ ThreadStep(t, [pc |-> IF XttsCacheHit(XttsState, DEFAULT_MODEL, get_device, FALSE)
                             THEN "return_cached" ELSE "load",
                      fn |-> "load_xtts_model", key |-> DEFAULT_MODEL,
                      device |-> get_device, id |-> 0, ret |-> Pending])
    /\ UNCHANGED <<envVars, loadCount, xttsVars, barkVars, piperVars, credVars, webVars, guiVars, pc, call>>

\* line 114: return loaded_models[model_key]
XttsThreadReturnCached(t) ==
    /\ pc = "idle" /\ threads[t].pc = "return_cached"
    /\ ThreadStep(t, [threads[t] EXCEPT !.pc = "done",
                          !.ret = IF threads[t].key \in DOMAIN xtts_loaded_models
                                  THEN RetValue(xtts_loaded_models[threads[t].key])
                                  ELSE Raised("KeyError")])
    /\ UNCHANGED <<envVars, loadCount, xttsVars, barkVars, piperVars, credVars, webVars, guiVars, engine, pc, call>>

\* lines 141-148: TTS(model_path) and tts.to(device); tts is a local
XttsThreadLoad(t) ==
    /\ pc = "idle" /\ threads[t].pc = "load" /\ threads[t].fn = "load_xtts_model"
    /\ Counted(TRUE)
    /\ \E ok \in BOOLEAN :
          ThreadStep(t, [threads[t] EXCEPT !.pc = IF ok THEN "store_tts" ELSE "except",
                                           !.id = IF ok THEN loadCount + 1 ELSE 0])
    /\ UNCHANGED <<envVars, xttsVars, barkVars, piperVars, credVars, webVars, guiVars, engine, pc, call>>

\* line 151: loaded_models[model_key] = tts
XttsThreadStoreModel(t) ==
    /\ pc = "idle" /\ threads[t].pc = "store_tts"
    /\ xtts_loaded_models'
          = XttsStore(XttsState, threads[t].key, threads[t].device, threads[t].id).models
    /\ ThreadStep(t, [threads[t] EXCEPT !.pc = "store_tts_device"])
    /\ UNCHANGED <<envVars, loadCount, xtts_loaded_device, barkVars, piperVars, credVars, webVars, guiVars,
                   engine, pc, call>>

\* lines 152-155: loaded_device = device; return tts
XttsThreadStoreDevice(t) ==
    /\ pc = "idle" /\ threads[t].pc = "store_tts_device"
    /\ xtts_loaded_device' = threads[t].device
    /\ ThreadStep(t, [threads[t] EXCEPT !.pc = "done",
                          !.ret = RetValue([key |-> threads[t].key, dev |-> threads[t].device,
                                            id |-> threads[t].id])])
    /\ UNCHANGED <<envVars, loadCount, xtts_loaded_models, barkVars, piperVars, credVars, webVars, guiVars,
                   engine, pc, call>>

\* the except branch: the entry of the key is deleted and the error raised
XttsThreadExcept(t) ==
    /\ pc = "idle" /\ threads[t].pc = "except"
    /\ xtts_loaded_models' = XttsRollback(xtts_loaded_models, threads[t].key)
    /\ ThreadStep(t, [threads[t] EXCEPT !.pc = "done", !.ret = Raised("LoaderError")])
    /\ UNCHANGED <<envVars, loadCount, xtts_loaded_device, barkVars, piperVars, credVars, webVars, guiVars,
                   engine, pc, call>>

\* the caller in thread t has the result; the thread can make another call
ThreadReturn(t) ==
    /\ pc = "idle" /\ threads[t].pc = "done"
    /\ ThreadStep(t, IdleThread)
    /\ UNCHANGED <<envVars, loadCount, xttsVars, barkVars, piperVars, credVars, webVars, guiVars, engine, pc, call>>

BarkThread(t) ==
    \/ BarkThreadCall(t) \/ BarkThreadLoad(t)
    \/ BarkThreadStoreProcessor(t) \/ BarkThreadStoreModel(t) \/ BarkThreadStoreDevice(t)
    \/ BarkThreadReturnProcessor(t) \/ BarkThreadReturnModel(t)
    \/ BarkThreadExceptProcessor(t) \/ BarkThreadExceptModel(t) \/ BarkThreadExceptDevice(t)

XttsThread(t) ==
    \/ XttsThreadCall(t) \/ XttsThreadReturnCached(t) \/ XttsThreadLoad(t)
    \/ XttsThreadStoreModel(t) \/ XttsThreadStoreDevice(t) \/ XttsThreadExcept(t)

(***************************************************************************)
(* web_app.py: POST /api/synthesize registers a job and starts a worker    *)
(* thread; GET /api/job/<id> reads the job.  The worker writes the job     *)
(* dictionary one statement at a time and takes no lock, so a poll can     *)
(* run between any two of its writes.                                      *)
(***************************************************************************)
\* text = data.get('text', '').strip()
WebTexts == {Strip(t) : t \in Texts}

\* lines 208-211
QueuedJob(output_filename) ==
    [status |-> "queued", message |-> Msg("Job queued", "", <<>>),
     output_filename |-> output_filename]

\* synthesis_jobs[job_id]['success'] = v: the key exists from then on
SetSuccess(job, v) ==
    [status |-> job.status, message |-> job.message, output_filename |-> job.output_filename,
     success |-> v]

\* job.get('success', False)
GetSuccess(job) == IF "success" \in DOMAIN job THEN job.success ELSE FALSE

\* lines 213-293: what the handler decides.  fail: it marks the job failed;
\* engine_type: the worker it starts (PyNone: none)
WebDecision(model_type, validated_key, voice_id, params_given) ==
    LET reject(fail, msg) == [code |-> 400, fail |-> fail, message |-> Msg(msg, "", <<>>),
                              engine_type |-> PyNone]
        start(engine_type) == [code |-> 200, fail |-> FALSE,
                               message |-> Msg("Synthesis job started", "", <<>>),
                               engine_type |-> engine_type]
    IN
    IF model_type = "ElevenLabs"
    THEN IF ~Truthy(validated_key)
         THEN reject(TRUE, "Invalid or missing API key provided for synthesis.")
         ELSE IF voice_id = ""
         THEN reject(TRUE, "No ElevenLabs voice selected for synthesis.")
         ELSE start("elevenlabs")
    ELSE IF model_type = "XTTSv2" THEN start("xtts")
    ELSE IF model_type = "Piper"
    THEN IF ~params_given THEN reject(FALSE, "Piper model files not specified")
         ELSE start("piper")
    ELSE IF model_type = "Bark"
    THEN IF ~params_given THEN reject(FALSE, "No Bark voice preset selected")
         ELSE start("bark")
    ELSE reject(TRUE, "Unknown model type")

\* a variant that reports success whatever the adapter returned
JobFinalStatusAlwaysCompleted(success) == "completed"

\* line 345
JobFinalStatus(success) == IF success THEN "completed" ELSE "failed"

\* POST /api/synthesize, lines 194-301
WebSynthesize ==
    /\ Len(synthesis_jobs) < MaxJobs
    /\ \E model_type \in WebModelTypes :
       \E text \in IF model_type = "ElevenLabs" THEN WebTexts ELSE {<<"hi">>},
          api_key \in IF model_type = "ElevenLabs" THEN {"", "good-key", "bad-key"} ELSE {""},
          voice_id \in IF model_type = "ElevenLabs" THEN VoiceIds ELSE {""},
          model_id \in IF model_type = "ElevenLabs" THEN ElevenModelIds ELSE {""},
          params_given \in IF model_type \in {"Piper", "Bark"} THEN BOOLEAN ELSE {TRUE} :
        LET job_id == Len(synthesis_jobs) + 1
            output_filename == WebOutputFilename(model_type, job_id)
            validated_key == validate_api_key(api_key, IF api_key = "good-key" THEN "ok"
                                                       ELSE "http401").ret.value
            d == WebDecision(model_type, validated_key, voice_id, params_given)
            queued == QueuedJob(output_filename)
        IN
        /\ synthesis_jobs' = Append(synthesis_jobs,
                                    IF d.fail THEN [queued EXCEPT !.status = "failed",
                                                                  !.message = d.message]
                                    ELSE queued)
        /\ web_workers' = IF d.engine_type = PyNone THEN web_workers
                          ELSE (job_id :> [pc |-> "status", engine_type |-> d.engine_type,
                                           text |-> text,
                                           output_path |-> InOutputFolder(output_filename),
                                           api_key |-> validated_key, voice_id |-> voice_id,
                                           model_id |-> model_id,
                                           success |-> FALSE,
                                           message |-> Msg("", "", <<>>),
                                           ret |-> Pending]) @@ web_workers
        /\ call' = [fn |-> "synthesize", model_type |-> model_type, job_id |-> job_id,
                    code |-> d.code, started |-> d.engine_type # PyNone,
                    ret |-> RetValue(d.message)]
    /\ UNCHANGED <<envVars, loadCount, xttsVars, barkVars, piperVars, credVars, threads, guiVars,
                   engine, pc>>

\* the worker of job j is at position at
WebAt(j, at) == j \in DOMAIN web_workers /\ web_workers[j].pc = at

\* the worker of job j writes the job and moves on
WebWrite(j, job, next) ==
    /\ synthesis_jobs' = [synthesis_jobs EXCEPT ![j] = job]
    /\ web_workers' = [web_workers EXCEPT ![j].pc = next]
    /\ UNCHANGED <<envVars, loadCount, xttsVars, barkVars, piperVars, credVars, threads, guiVars,
                   engine, pc, call>>

\* run_synthesis_job, line 305
WebRunStatus(j) ==
    /\ WebAt(j, "status")
    /\ WebWrite(j, [synthesis_jobs[j] EXCEPT !.status = "processing"], "message")

\* line 306
WebRunMessage(j) ==
    /\ WebAt(j, "message")
    /\ WebWrite(j, [synthesis_jobs[j] EXCEPT
                       !.message = Msg("Processing with", web_workers[j].engine_type, <<>>)],
                "call")

\* what a local adapter of MultiTTSAPI gives back: a pair, or (Bark) nothing
WebAdapterResults(engine_type, output_path) ==
    {RetPair(TRUE, Msg("Audio saved in", "", output_path)),
     RetPair(FALSE, Msg("synthesis failed", "", <<>>))}
        \cup (IF engine_type = "bark" THEN {RetNone} ELSE {})

\* success, message = tts_api.synthesize_*(...), lines 311-342; unpacking
\* anything but a pair raises
WebUnpack(w, ret) ==
    IF ret.kind = "pair"
    THEN [w EXCEPT !.ret = ret, !.success = ret.success, !.message = ret.message,
                   !.pc = "done_status"]
    ELSE [w EXCEPT !.ret = ret, !.message = Msg("Error:", "TypeError", <<>>),
                   !.pc = "except_status"]

\* the call of a local adapter
WebRunLocal(j) ==
    /\ WebAt(j, "call")
    /\ web_workers[j].engine_type # "elevenlabs"
    /\ \E ret \in WebAdapterResults(web_workers[j].engine_type, web_workers[j].output_path) :
        /\ web_workers' = [web_workers EXCEPT ![j] = WebUnpack(@, ret)]
        /\ dirs' = EnsureOutputDir(dirs, web_workers[j].output_path)
        /\ files' = IF ret.kind = "pair" /\ ret.success
                    THEN [files EXCEPT ![web_workers[j].output_path] = "nonempty"]
                    ELSE files
    /\ UNCHANGED <<cuda_available, loadCount, xttsVars, barkVars, piperVars, credVars, threads,
                   guiVars, synthesis_jobs, engine, pc, call>>

\* the call of MultiTTSAPI.synthesize_elevenlabs with the validated key
WebRunElevenlabs(j) ==
    /\ WebAt(j, "call")
    /\ web_workers[j].engine_type = "elevenlabs"
    /\ LET w == web_workers[j] IN
       \E remote \in IF ElevenValidate(w.api_key, w.text, w.voice_id, w.model_id) = Pending
                     THEN {"ok", "http401", "exception"} ELSE {"ok"} :
       \E save_ok \in IF remote = "ok" THEN BOOLEAN ELSE {TRUE},
          conv \in IF remote = "ok" THEN Conversions ELSE {"ok"} :
        LET e == synthesize_elevenlabs(EnsureOutputDir(dirs, w.output_path), w.api_key, w.text,
                                       w.voice_id, w.model_id, w.output_path, remote, "string",
                                       save_ok, conv)
        IN
        /\ web_workers' = [web_workers EXCEPT ![j] = WebUnpack(@, e.ret)]
        /\ dirs' = e.dirs
        /\ files' = [p \in AllPaths |->
                        IF p = Mp3Path(w.output_path) /\ e.mp3 # "keep" THEN e.mp3
                        ELSE IF p = w.output_path /\ e.wav # "keep" THEN e.wav
                        ELSE files[p]]
    /\ UNCHANGED <<cuda_available, loadCount, xttsVars, barkVars, piperVars, credVars, threads,
                   guiVars, synthesis_jobs, engine, pc, call>>

\* line 345
WebRunDoneStatus(j) ==
    /\ WebAt(j, "done_status")
    /\ WebWrite(j, [synthesis_jobs[j] EXCEPT !.status = JobFinalStatus(web_workers[j].success)],
                "done_message")

\* line 346
WebRunDoneMessage(j) ==
    /\ WebAt(j, "done_message")
    /\ WebWrite(j, [synthesis_jobs[j] EXCEPT !.message = web_workers[j].message],
                "done_success")

\* line 347; the web handler passes no speaker file, so nothing is cleaned up
WebRunDoneSuccess(j) ==
    /\ WebAt(j, "done_success")
    /\ WebWrite(j, SetSuccess(synthesis_jobs[j], web_workers[j].success), "end")

\* lines 358-360
WebRunExceptStatus(j) ==
    /\ WebAt(j, "except_status")
    /\ WebWrite(j, [synthesis_jobs[j] EXCEPT !.status = "failed"], "except_message")

\* line 361
WebRunExceptMessage(j) ==
    /\ WebAt(j, "except_message")
    /\ WebWrite(j, [synthesis_jobs[j] EXCEPT !.message = web_workers[j].message],
                "except_success")

\* line 362
WebRunExceptSuccess(j) ==
    /\ WebAt(j, "except_success")
    /\ WebWrite(j, SetSuccess(synthesis_jobs[j], FALSE), "end")

\* one statement of run_synthesis_job for job j
run_synthesis_job(j) ==
    \/ WebRunStatus(j) \/ WebRunMessage(j) \/ WebRunLocal(j) \/ WebRunElevenlabs(j)
    \/ WebRunDoneStatus(j) \/ WebRunDoneMessage(j) \/ WebRunDoneSuccess(j)
    \/ WebRunExceptStatus(j) \/ WebRunExceptMessage(j) \/ WebRunExceptSuccess(j)

\* get_job_status, lines 414-439: the response for a job that exists
JobResponse(job) ==
    LET base == [status |-> job.status, message |-> job.message] IN
    IF job.status \notin {"completed", "failed"} THEN base
    ELSE IF ~GetSuccess(job)
    THEN [status |-> job.status, message |-> job.message, success |-> FALSE]
    ELSE [status |-> job.status, message |-> job.message, success |-> job.success,
          output_filename |-> job.output_filename,
          audio_url |-> <<"/", "audio", "/">> \o job.output_filename]

\* GET /api/job/<job_id>
WebGetJobStatus ==
    /\ \E job_id \in 1..MaxJobs :
        call' = IF job_id \notin DOMAIN synthesis_jobs
                THEN [fn |-> "get_job_status", job_id |-> job_id, code |-> 404,
                      response |-> [success |-> FALSE, message |-> Msg("Job not found", "", <<>>)],
                      ret |-> Pending]
                ELSE [fn |-> "get_job_status", job_id |-> job_id, code |-> 200,
                      response |-> JobResponse(synthesis_jobs[job_id]), ret |-> Pending]
    /\ UNCHANGED <<envVars, loadCount, xttsVars, barkVars, piperVars, credVars, threads, webVars,
                   guiVars, engine, pc>>

(***************************************************************************)
(* app.py: the window.  The handlers and the callbacks scheduled with      *)
(* self.after(0, ...) run in the main thread, one at a time and in the     *)
(* order they were scheduled; the voice fetch and the synthesis run in     *)
(* worker threads, which only schedule callbacks.                          *)
(***************************************************************************)
\* the keys a user enters: none, and the keys of two accounts
GuiKeys == {"", "good-key", "other-key"}
GuiModelTypes == {"XTTSv2", "Piper", "Bark", "ElevenLabs"}
GuiOutputPath == <<"out", "/", "a", ".wav">>

\* the catalog the service reports for the account of a key
AccountVoices(api_key) ==
    IF api_key = "good-key"
    THEN <<[name |-> "Bob", voice_id |-> "id2"], [name |-> "Ann", voice_id |-> "id1"]>>
    ELSE <<[name |-> "Ann", voice_id |-> "id3"]>>

\* lines 621-625: self.elevenlabs_voices[name] = voice_id for each pair
VoiceMap(pairs) ==
    [n \in {pairs[i][1] : i \in DOMAIN pairs} |->
        LET last == CHOOSE i \in DOMAIN pairs :
                        pairs[i][1] = n /\ \A k \in DOMAIN pairs : pairs[k][1] = n => k <= i
        IN pairs[last][2]]

\* the threads and callbacks that have not run yet
GuiPending == Len(gui_workers) + Len(gui_after_queue)

\* threading.Thread(...).start()
StartThread(workers, w) == Append(workers, w)

\* the thread at position i ends
EndThread(workers, i) == SubSeq(workers, 1, i - 1) \o SubSeq(workers, i + 1, Len(workers))

\* lines 569-581: the worker is given the key that is current when it starts
refresh_elevenlabs_voices_thread(workers, current_key) ==
    IF ~Truthy(current_key) THEN workers
    ELSE StartThread(workers, [kind |-> "voices", pc |-> "fetch", api_key |-> current_key])

\* _set_active_elevenlabs_key, lines 519-542, with the thread it starts and
\* the map it clears
GuiSetActiveKey ==
    /\ GuiPending < MaxPending
    /\ \E key_to_set \in GuiKeys, probe \in {"ok", "http401"} :
        LET r == set_active_elevenlabs_key(app_current_elevenlabs_key, key_to_set, probe) IN
        /\ app_current_elevenlabs_key' = r.stored
        /\ gui_workers' = IF r.ret.value THEN refresh_elevenlabs_voices_thread(gui_workers, r.stored)
                          ELSE gui_workers
        /\ elevenlabs_voices' = IF r.ret.value THEN elevenlabs_voices ELSE <<>>
    /\ UNCHANGED <<envVars, loadCount, xttsVars, barkVars, piperVars, api_current_elevenlabs_key,
                   threads, webVars, gui_ui_state, gui_after_queue, engine, pc, call>>

\* the refresh button
GuiRefreshVoices ==
    /\ GuiPending < MaxPending
    /\ Truthy(app_current_elevenlabs_key)
    /\ gui_workers' = refresh_elevenlabs_voices_thread(gui_workers, app_current_elevenlabs_key)
    /\ UNCHANGED <<envVars, loadCount, xttsVars, barkVars, piperVars, credVars, threads, webVars,
                   gui_ui_state, gui_after_queue, elevenlabs_voices, engine, pc, call>>

\* _get_voices_worker, lines 583-593
GuiGetVoicesWorker(i) ==
    /\ i \in DOMAIN gui_workers
    /\ gui_workers[i].kind = "voices"
    /\ \E remote \in {"ok", "http401"} :
        LET api_key == gui_workers[i].api_key
            r == get_elevenlabs_voices(api_key, remote, AccountVoices(api_key)).ret
        IN
        gui_after_queue' =
            Append(gui_after_queue,
                   [fn |-> "_update_elevenlabs_voice_list",
                    voices_result |-> IF r.kind = "value" THEN r.value ELSE <<>>,
                    error |-> IF r.kind = "raise" THEN r.exc ELSE PyNone])
    /\ gui_workers' = EndThread(gui_workers, i)
    /\ UNCHANGED <<envVars, loadCount, xttsVars, barkVars, piperVars, credVars, threads, webVars,
                   gui_ui_state, elevenlabs_voices, engine, pc, call>>

\* _update_elevenlabs_voice_list, lines 595-640: the map afterwards
update_elevenlabs_voice_list(voices, voices_result, error) ==
    IF error # PyNone THEN <<>> ELSE VoiceMap(voices_result)

\* a variant that disables the controls before it validates the input
start_synthesis_disable_first(valid) ==
    [ui_state |-> "disabled", start |-> valid]

\* start_synthesis_thread, lines 822-886: the state of the controls when it
\* returns and whether it started a worker
start_synthesis_thread(valid) ==
    [ui_state |-> IF valid THEN "disabled" ELSE "normal", start |-> valid]

\* lines 863-873: the ElevenLabs parameters are there
ElevenParamsValid(voices, selected_voice_name, current_key) ==
    selected_voice_name \in DOMAIN voices /\ Truthy(current_key)

\* the Synthesize button: it does nothing while it is disabled.  valid: the
\* text, the output file and the engine's parameters pass lines 829-876
GuiStartSynthesis ==
    /\ gui_ui_state = "normal"
    /\ GuiPending < MaxPending
    /\ \E model_type \in GuiModelTypes, has_text \in BOOLEAN, params_ok \in BOOLEAN :
        LET valid == /\ has_text
                     /\ params_ok
                     /\ model_type = "ElevenLabs" =>
                            ElevenParamsValid(elevenlabs_voices, "Ann",
                                              app_current_elevenlabs_key)
            r == start_synthesis_thread(valid)
        IN
        /\ dirs' = IF has_text THEN EnsureOutputDir(dirs, GuiOutputPath) ELSE dirs
        /\ gui_ui_state' = r.ui_state
        /\ gui_workers' = IF r.start
                          THEN StartThread(gui_workers,
                                           [kind |-> "synthesis", pc |-> "call",
                                            model_type |-> model_type, success |-> FALSE,
                                            message |-> Msg("Synthesis started...", "", <<>>)])
                          ELSE gui_workers
    /\ UNCHANGED <<cuda_available, files, loadCount, xttsVars, barkVars, piperVars, credVars,
                   threads, webVars, gui_after_queue, elevenlabs_voices, engine, pc, call>>

\* what the engine function gives back to run_synthesis: a pair, nothing
\* (Bark), or an exception
GuiAdapterResults(model_type) ==
    {RetPair(TRUE, Msg("Audio saved in", "", GuiOutputPath)),
     RetPair(FALSE, Msg("synthesis failed", "", <<>>)),
     Raised("RuntimeError")}
        \cup (IF model_type = "Bark" THEN {RetNone} ELSE {})
        \cup (IF model_type = "ElevenLabs"
              THEN {RetPair(TRUE, Msg("Audio successfully saved (as MP3!) in", "",
                                      Mp3Path(GuiOutputPath)))}
              ELSE {})

\* run_synthesis, lines 890-904: success, message = synthesis_function(**params)
GuiRunSynthesisCall(i) ==
    /\ i \in DOMAIN gui_workers
    /\ gui_workers[i].kind = "synthesis"
    /\ gui_workers[i].pc = "call"
    /\ \E ret \in GuiAdapterResults(gui_workers[i].model_type) :
        /\ gui_workers' =
              [gui_workers EXCEPT
                  ![i] = IF ret.kind = "pair"
                         THEN [@ EXCEPT !.pc = "finally", !.success = ret.success,
                                        !.message = ret.message]
                         ELSE [@ EXCEPT !.pc = "finally", !.success = FALSE,
                                        !.message = Msg("Unexpected error during synthesis",
                                                        IF ret.kind = "raise" THEN ret.exc
                                                        ELSE "TypeError", <<>>)]]
        /\ files' = IF ret.kind = "pair" /\ ret.success
                    THEN [files EXCEPT ![ret.message.path] = "nonempty"]
                    ELSE files
    /\ UNCHANGED <<cuda_available, dirs, loadCount, xttsVars, barkVars, piperVars, credVars,
                   threads, webVars, gui_ui_state, gui_after_queue, elevenlabs_voices, engine, pc,
                   call>>

\* line 907: self.after(0, lambda: self.set_ui_state('normal'))
GuiRunSynthesisFinally(i) ==
    /\ i \in DOMAIN gui_workers
    /\ gui_workers[i].kind = "synthesis"
    /\ gui_workers[i].pc = "finally"
    /\ gui_after_queue' = Append(gui_after_queue, [fn |-> "set_ui_state", state |-> "normal"])
    /\ gui_workers' = [gui_workers EXCEPT ![i].pc = "report"]
    /\ UNCHANGED <<envVars, loadCount, xttsVars, barkVars, piperVars, credVars, threads, webVars,
                   gui_ui_state, elevenlabs_voices, engine, pc, call>>

\* lines 912-926: the callbacks a finished run schedules
SynthesisReport(w) ==
    IF w.success
    THEN <<[fn |-> "add_audio_to_list", path |-> w.message.path], [fn |-> "showinfo"]>>
    ELSE <<[fn |-> "showerror"]>>

\* lines 909-926; the thread ends
GuiRunSynthesisReport(i) ==
    /\ i \in DOMAIN gui_workers
    /\ gui_workers[i].kind = "synthesis"
    /\ gui_workers[i].pc = "report"
    /\ gui_after_queue' = gui_after_queue \o SynthesisReport(gui_workers[i])
    /\ gui_workers' = EndThread(gui_workers, i)
    /\ UNCHANGED <<envVars, loadCount, xttsVars, barkVars, piperVars, credVars, threads, webVars,
                   gui_ui_state, elevenlabs_voices, engine, pc, call>>

\* the main loop runs the callback scheduled first
GuiMainLoop ==
    /\ gui_after_queue # <<>>
    /\ LET cb == Head(gui_after_queue) IN
        /\ gui_ui_state' = IF cb.fn = "set_ui_state" THEN cb.state ELSE gui_ui_state
        /\ elevenlabs_voices' =
              IF cb.fn = "_update_elevenlabs_voice_list"
              THEN update_elevenlabs_voice_list(elevenlabs_voices, cb.voices_result, cb.error)
              ELSE elevenlabs_voices
    /\ gui_after_queue' = Tail(gui_after_queue)
    /\ UNCHANGED <<envVars, loadCount, xttsVars, barkVars, piperVars, credVars, threads, webVars,
                   gui_workers, engine, pc, call>>

\* one step of a worker thread of the window
GuiWorker(i) ==
    \/ GuiGetVoicesWorker(i) \/ GuiRunSynthesisCall(i) \/ GuiRunSynthesisFinally(i)
    \/ GuiRunSynthesisReport(i)

(***************************************************************************)
(* Specifications.  Spec is the whole program; the others are the program  *)
(* with its client restricted to one family of calls.                      *)
(***************************************************************************)
\* the cloning adapter's synthesize
XttsSynthesize ==
    \/ XttsSynthStart
    \/ XttsMethod1 \/ XttsMethod2 \/ XttsMethod3 \/ XttsMethod4
    \/ NonXttsTry1 \/ NonXttsTry2
    \/ XttsSynthReturn

NextXtts == DeviceChange \/ ReturnToCaller \/ XttsSynthesize
\* the three resource caches, called directly
NextCache == DeviceChange \/ ArtifactChange \/ CallLoadXtts \/ CallLoadBark \/ CallLoadPiper
\* the generative adapter's synthesize
NextBark == DeviceChange \/ ReturnToCaller \/ CallSynthesizeBark
\* the lightweight adapter's synthesize, called directly and through MultiTTSAPI
NextPiper == ArtifactChange \/ ReturnToCaller \/ CallSynthesizePiper \/ CallApiSynthesizePiper
\* the generative adapter given paths as typed, directly and through the GUI
NextTyped == ReturnToCaller \/ CallSynthesizeBarkTyped \/ AppSynthesizeBark
\* the hosted adapter
NextEleven ==
    \/ ReturnToCaller
    \/ CallValidateApiKey
    \/ CallGetElevenlabsVoices
    \/ CallGetSubscriptionInfo
    \/ CallSynthesizeElevenlabs

\* the credential cell and the MultiTTSAPI calls that use it
NextCredential ==
    \/ ReturnToCaller
    \/ ApiValidateElevenlabsKey
    \/ AppSetActiveElevenlabsKey
    \/ ApiGetElevenlabsVoices
    \/ ApiGetElevenlabsSubscriptionInfo
    \/ ApiSynthesizeElevenlabs

\* load calls racing in worker threads
NextConcurrent == \E t \in Threads : BarkThread(t) \/ XttsThread(t) \/ ThreadReturn(t)

NextWeb == WebSynthesize \/ WebGetJobStatus \/ \E j \in 1..MaxJobs : run_synthesis_job(j)

NextGui ==
    \/ GuiSetActiveKey \/ GuiRefreshVoices \/ GuiStartSynthesis \/ GuiMainLoop
    \/ \E i \in 1..(MaxPending + 1) : GuiWorker(i)

Next == NextGui \/ NextWeb \/ NextConcurrent \/ NextCredential \/ NextXtts \/ NextCache \/ NextBark \/ NextPiper \/ NextEleven \/ NextTyped

Spec == Init /\ [][Next]_vars
SpecXtts == Init /\ [][NextXtts]_vars
SpecCache == Init /\ [][NextCache]_vars
SpecBark == Init /\ [][NextBark]_vars
SpecPiper == Init /\ [][NextPiper]_vars
SpecEleven == Init /\ [][NextEleven]_vars
SpecTyped == Init /\ [][NextTyped]_vars
SpecCredential == Init /\ [][NextCredential]_vars
SpecConcurrent == Init /\ [][NextConcurrent]_vars
SpecWeb == Init /\ [][NextWeb]_vars
SpecGui == Init /\ [][NextGui]_vars
\* a started thread runs to its end (the engine call returns), and the main
\* loop runs every callback it was given
SpecGuiLive ==
    /\ SpecGui
    /\ WF_vars(GuiMainLoop)
    /\ WF_vars(\E i \in 1..(MaxPending + 1) : GuiGetVoicesWorker(i))
    /\ WF_vars(\E i \in 1..(MaxPending + 1) :
                  GuiRunSynthesisCall(i) \/ GuiRunSynthesisFinally(i) \/ GuiRunSynthesisReport(i))
\* a started worker thread runs on: each of its statements is eventually
\* executed, and the adapter it calls returns
SpecWebLive == SpecWeb /\ \A j \in 1..MaxJobs : WF_vars(run_synthesis_job(j))

(***************************************************************************)
(* Properties                                                              *)
(***************************************************************************)

\* C1: a synthesize call of an adapter gives its caller a (success, message)
\* pair whatever the backend does: it never raises and never returns
\* anything else.
C1_AlwaysPair ==
    pc = "returned"
        /\ call.fn \in {"synthesize_xtts", "synthesize_piper", "synthesize_bark",
                        "synthesize_elevenlabs"}
    => call.ret.kind = "pair"

\* C2: the methods of the cascade are invoked in increasing order, each one
\* only after every method invoked before it raised, and none after a
\* method completed.
C2_CascadeOrder ==
    call.fn = "synthesize_xtts" =>
        /\ \A i \in 1..Len(call.log) : call.log[i].method \in 1..4
        /\ \A i \in 1..(Len(call.log) - 1) :
               /\ call.log[i].raised
               /\ call.log[i].method < call.log[i + 1].method

\* methods 1, 2 and 3 raised and method 4 completed
C2_Witness ==
    /\ pc = "returned"
    /\ call.fn = "synthesize_xtts"
    /\ Len(call.log) = 4
    /\ call.log[4].method = 4
    /\ ~call.log[4].raised

\* C3: when method 1 raises and a later method completes and leaves a
\* non-empty file at the output path, the call returns (True, ...).
C3_LaterMethodSucceeds ==
    pc = "returned" /\ call.fn = "synthesize_xtts" /\ Len(call.log) >= 2
        /\ call.log[1].raised /\ ~call.log[Len(call.log)].raised
        /\ files[call.output_path] = "nonempty"
    => call.ret.kind = "pair" /\ call.ret.success

\* method 1 raised, method 2 completed and wrote the file
C3_Witness ==
    /\ pc = "returned"
    /\ call.fn = "synthesize_xtts"
    /\ Len(call.log) = 2
    /\ call.log[1].method = 1 /\ call.log[1].raised
    /\ call.log[2].method = 2 /\ ~call.log[2].raised
    /\ files[call.output_path] = "nonempty"
    /\ call.ret.success

\* C4: when every method that was invoked raised, the call returns
\* (False, message) and the message says that all synthesis methods failed,
\* whatever is at the output path.
C4_AllMethodsFail ==
    pc = "returned" /\ call.fn = "synthesize_xtts" /\ call.log # <<>>
        /\ (\A i \in 1..Len(call.log) : call.log[i].raised)
    => /\ call.ret.kind = "pair"
       /\ ~call.ret.success
       /\ call.ret.message.text = "All synthesis methods failed"

\* all four methods raised while a non-empty file is at the output path
C4_Witness ==
    /\ pc = "returned"
    /\ call.fn = "synthesize_xtts"
    /\ Len(call.log) = 4
    /\ \A i \in 1..4 : call.log[i].raised
    /\ files[call.output_path] = "nonempty"
    /\ ~call.ret.success

\* C5: the call returns True only if the output file exists with a non-zero
\* size when it returns; a method that completes without leaving such a file
\* gives (False, ...).
C5_SuccessMeansFile ==
    pc = "returned" /\ call.fn = "synthesize_xtts" =>
        /\ call.ret.kind = "pair"
        /\ call.ret.success => files[call.output_path] = "nonempty"
        /\ call.ok /\ files[call.output_path] # "nonempty" => ~call.ret.success

\* a method completed and left a zero-byte file
C5_Witness ==
    /\ pc = "returned"
    /\ call.fn = "synthesize_xtts"
    /\ call.ok
    /\ files[call.output_path] = "empty"
    /\ ~call.ret.success
    /\ call.ret.message.text = "Output file is empty"

C7_DeviceChangeReloads ==
    call.fn \in {"load_xtts_model", "load_bark_model"}
        /\ call.cached_before.dev # NoDevice /\ call.cached_before.dev # call.device
    => /\ call.loader
       /\ call.ret.kind = "value" =>
              call.device = IF call.fn = "load_xtts_model" THEN call.ret.value.dev
                            ELSE call.ret.value.model.dev

\* C8 as stated: after a load call that raised, the cache holds no entry for
\* the key of the call.
C8_RaisedLoadLeavesNoEntry ==
    call.fn \in {"load_xtts_model", "load_bark_model", "load_piper_model"}
        /\ call.ret.kind = "raise"
    => /\ call.fn = "load_xtts_model" => call.key \notin DOMAIN xtts_loaded_models
       /\ call.fn = "load_bark_model" =>
              bark_loaded_model = NoModel /\ bark_loaded_processor = NoProcessor
       /\ call.fn = "load_piper_model" => call.key \notin DOMAIN piper_loaded_voices

\* C8: after a load call whose loader was invoked and raised (first load,
\* device-change reload or force_reload), the exception has reached the
\* caller and the cache holds no entry for the key; a load_piper_model call
\* that raises before its loader is invoked leaves the entry it found.
C8_LoaderFailureRollsBack ==
    call.fn \in {"load_xtts_model", "load_bark_model", "load_piper_model"}
        /\ call.ret.kind = "raise"
    => IF call.loader
       THEN /\ call.fn = "load_xtts_model" => call.key \notin DOMAIN xtts_loaded_models
            /\ call.fn = "load_bark_model" =>
                   bark_loaded_model = NoModel /\ bark_loaded_processor = NoProcessor
            /\ call.fn = "load_piper_model" => call.key \notin DOMAIN piper_loaded_voices
       ELSE call.fn = "load_piper_model" /\ PiperCached(call.key) = call.cached_before

\* a forced reload of a cached model whose loader raised
C8_Witness ==
    /\ call.fn = "load_xtts_model"
    /\ call.force_reload
    /\ call.cached_before # NoHandle
    /\ call.loader
    /\ call.ret.kind = "raise"
    /\ call.key \notin DOMAIN xtts_loaded_models

\* C9: a synthesize_piper call whose model or config file is not on disk
\* returns (False, ...) without invoking the loader and without using a
\* cached voice.
C9_MissingArtifact ==
    pc = "returned"
        /\ call.fn \in {"synthesize_piper", "MultiTTSAPI.synthesize_piper"}
        /\ ~call.on_disk
    => /\ call.ret.kind = "pair"
       /\ ~call.ret.success
       /\ ~call.loader
       /\ call.voice = NoHandle

\* C10: validate_api_key returns the candidate when the probe succeeds and
\* None when the candidate is empty or the probe fails in any way; it never
\* raises, and makes no remote call for an empty candidate.
C10_ValidateApiKey ==
    pc = "returned" /\ call.fn = "validate_api_key" =>
        /\ call.ret.kind = "value"
        /\ call.ret.value = IF Truthy(call.candidate) /\ call.probe = "ok"
                             THEN call.candidate ELSE PyNone
        /\ ~Truthy(call.candidate) => call.remote_calls = 0

\* a good key was probed once and came back unchanged
C10_Witness ==
    /\ pc = "returned"
    /\ call.fn = "validate_api_key"
    /\ call.candidate = "good-key"
    /\ call.probe = "ok"
    /\ call.remote_calls = 1
    /\ call.ret = RetValue("good-key")

C12_FailFast ==
    pc = "returned" /\ call.fn = "synthesize_elevenlabs"
        /\ (\/ ~Truthy(call.api_key) \/ call.voice_id = "" \/ call.model_id = ""
            \/ call.text = <<>> \/ Strip(call.text) = <<>>)
    => /\ call.ret.kind = "pair"
       /\ ~call.ret.success
       /\ call.trace = <<>>

\* whitespace-only text, everything else valid, the output directory missing
C12_Witness ==
    /\ pc = "returned"
    /\ call.fn = "synthesize_elevenlabs"
    /\ call.api_key = "good-key" /\ call.voice_id # "" /\ call.model_id # ""
    /\ call.text = <<" ">>
    /\ Dirname(call.output_path) # <<>> /\ Dirname(call.output_path) \notin dirs
    /\ call.ret = RetPair(FALSE, Msg("No text entered for synthesis.", "", <<>>))
    /\ call.trace = <<>>

\* C13: once the MP3 is saved, synthesize_elevenlabs returns success whether
\* the conversion completes, its dependency is missing or it raises; the
\* message names the .mp3 path in the two degraded cases and the requested
\* path otherwise.
C13_DegradedDelivery ==
    pc = "returned" /\ call.fn = "synthesize_elevenlabs"
        /\ (\E i \in 1..Len(call.trace) : call.trace[i] = "save")
    => /\ call.ret.kind = "pair"
       /\ call.ret.success
       /\ call.ret.message.path = IF call.conv = "ok" THEN call.output_path
                                  ELSE Mp3Path(call.output_path)
       /\ call.conv # "ok" => call.ret.message.path # call.output_path

\* the conversion raised after the MP3 was saved
C13_Witness ==
    /\ pc = "returned"
    /\ call.fn = "synthesize_elevenlabs"
    /\ call.conv = "raise"
    /\ call.trace = <<"remote", "save", "convert">>
    /\ call.ret.success
    /\ call.ret.message.path = Mp3Path(call.output_path)
    /\ files[Mp3Path(call.output_path)] = "nonempty"

\* C14: an HTTP status error of the remote synthesis call gives (False,
\* message): 401 the authentication message, 402 the quota message, 422 the
\* validation message with the extracted detail, any other status the generic
\* message with the status code and the extracted detail; the messages of
\* different statuses differ.
C14_HttpErrorMapping ==
    /\ pc = "returned" /\ call.fn = "synthesize_elevenlabs"
           /\ call.trace # <<>> /\ call.remote \notin {"ok", "exception"}
       => /\ call.ret.kind = "pair"
          /\ ~call.ret.success
          /\ call.remote = "http401" =>
                 call.ret.message.template
                     = "ElevenLabs Error: Authentication Error (401): Check API Key."
          /\ call.remote = "http402" =>
                 call.ret.message.template
                     = "ElevenLabs Error: Quota Error (402): Character limit likely reached."
          /\ call.remote = "http422" =>
                 /\ call.ret.message.template = "ElevenLabs Error: Validation Error (422)"
                 /\ call.ret.message.text = parse_elevenlabs_error_details(call.shape)
          /\ call.remote = "http500" =>
                 /\ call.ret.message.template = "ElevenLabs Error: HTTP Error"
                 /\ call.ret.message.status = 500
                 /\ call.ret.message.text = parse_elevenlabs_error_details(call.shape)
    /\ \A a, b \in {401, 402, 422, 500}, x, y \in DetailShapes :
           a # b => ElevenHttpError(a, parse_elevenlabs_error_details(x))
                        # ElevenHttpError(b, parse_elevenlabs_error_details(y))

\* a 500 answer whose body carries a detail list with msg and loc
C14_Witness ==
    /\ pc = "returned"
    /\ call.fn = "synthesize_elevenlabs"
    /\ call.remote = "http500"
    /\ call.shape = "list_msg_loc"
    /\ call.ret.message.status = 500
    /\ call.ret.message.text = "msg (Field: loc)"

\* C15: synthesize_xtts with a model key that is not in the catalog, while
\* the default model is, goes on with the default model instead of returning
\* the unknown-model failure.
C15_UnknownModelFallsBack ==
    pc = "returned" /\ call.fn = "synthesize_xtts"
        /\ call.model_key \notin DOMAIN get_available_models
        /\ DEFAULT_MODEL \in DOMAIN get_available_models
    => call.ret # XttsExcept("Unknown TTS model")

\* C16 as stated: when the requested language is not in the model's set and
\* the model is of type xtts, every backend invocation of the call is made
\* with the requested language.
C16_LanguageNeverChanged ==
    call.fn = "synthesize_xtts" /\ call.model_key \in DOMAIN get_available_models
        /\ call.requested_language \notin get_available_models[call.model_key].languages
        /\ get_available_models[call.model_key].type = "xtts"
    => \A i \in 1..Len(call.log) : call.log[i].language = call.requested_language

\* C16: when the requested language is not in the model's set, the language
\* handling before the cascade leaves it alone for a model of type xtts, so
\* that methods 1 and 2 are invoked with the requested language (method 3
\* forces "en" and method 4 passes no language); for a model of another type
\* that supports "en", "en" is substituted and the backend is invoked unless
\* the load or the output directory failed.
C16_LanguageHandling ==
    call.fn = "synthesize_xtts" /\ call.model_key \in DOMAIN get_available_models
        /\ call.requested_language \notin get_available_models[call.model_key].languages
    => IF get_available_models[call.model_key].type = "xtts"
       THEN /\ call.language = call.requested_language
            /\ \A i \in 1..Len(call.log) :
                   /\ call.log[i].method \in {1, 2} =>
                          call.log[i].language = call.requested_language
                   /\ call.log[i].method = 3 => call.log[i].language = "en"
                   /\ call.log[i].method = 4 => call.log[i].language = PyNone
       ELSE /\ "en" \in get_available_models[call.model_key].languages =>
                   call.language = "en"
            /\ pc = "returned" /\ call.model # NoHandle
                   /\ ~MakedirsRaises(Dirname(call.output_path))
               => call.log # <<>>

\* an unsupported language on xtts_v2: methods 1 and 2 raised with it, method
\* 3 completed with "en"
C16_Witness ==
    /\ pc = "returned"
    /\ call.fn = "synthesize_xtts"
    /\ call.model_key = "xtts_v2"
    /\ call.requested_language = "xx"
    /\ Len(call.log) = 3
    /\ call.log[1].language = "xx" /\ call.log[2].language = "xx"
    /\ call.log[3].language = "en" /\ ~call.log[3].raised

\* C17: a synthesize call whose model loaded gets as far as invoking the
\* backend whatever the output path: its directory handling does not fail.
C17_OutputDirectory ==
    pc = "returned" /\ call.fn = "synthesize_xtts" /\ call.model # NoHandle
    => call.log # <<>> /\ call.ret # XttsExcept("FileNotFoundError")

\* C18: whatever destination path the caller gives, a successful call has
\* written, and names in its message, a file whose name ends in .wav.
C18_CanonicalExtension ==
    pc = "returned" /\ call.fn \in {"synthesize_bark", "TTSApp.run_synthesis"}
        /\ call.ret.kind = "pair" /\ call.ret.success
    => /\ EndsWithWav(call.ret.message.path)
       /\ files[call.ret.message.path] # "missing"

\* C19: after a validation call the credential cell holds what that call
\* validated: its candidate when the validation succeeded, nothing when it
\* failed; whatever was stored before is gone.
C19_LastValidationWins ==
    pc = "returned" =>
        /\ call.fn = "MultiTTSAPI.validate_elevenlabs_key" =>
               api_current_elevenlabs_key
                   = IF call.ret.value THEN call.candidate ELSE PyNone
        /\ call.fn = "TTSApp._set_active_elevenlabs_key" =>
               app_current_elevenlabs_key
                   = IF call.ret.value THEN call.candidate ELSE PyNone

\* C20: validate_elevenlabs_key stores its candidate exactly when the
\* validation succeeds and otherwise leaves the cell alone; the three
\* MultiTTSAPI calls use the key passed when it is non-empty and the stored
\* key otherwise, and raise ValueError without calling the engine when there
\* is neither.
C20_CachedKeyFallback ==
    pc = "returned" =>
        /\ call.fn = "MultiTTSAPI.validate_elevenlabs_key" =>
               /\ call.ret.value = (Truthy(call.candidate) /\ call.probe = "ok")
               /\ api_current_elevenlabs_key
                      = IF call.ret.value THEN call.candidate ELSE call.stored_before
        /\ call.fn \in {"MultiTTSAPI.get_elevenlabs_voices",
                        "MultiTTSAPI.get_elevenlabs_subscription_info",
                        "MultiTTSAPI.synthesize_elevenlabs"} =>
               IF Truthy(call.api_key)
               THEN call.engine_called /\ call.key_used = call.api_key
               ELSE IF Truthy(call.stored_before)
               THEN call.engine_called /\ call.key_used = call.stored_before
               ELSE /\ call.ret = Raised("ValueError")
                    /\ ~call.engine_called
                    /\ call.remote_calls = 0

\* no key passed: the key of an earlier successful validation was used
C20_Witness ==
    /\ pc = "returned"
    /\ call.fn = "MultiTTSAPI.get_elevenlabs_voices"
    /\ call.api_key = PyNone
    /\ call.stored_before = "good-key"
    /\ call.key_used = "good-key"
    /\ call.remote_calls = 1

\* C21: the second method of the cascade invokes the backend without a
\* reference audio, also when a valid one was supplied and used by the first.
C21_Method2OmitsSpeaker ==
    call.fn = "synthesize_xtts" =>
        \A i \in 1..Len(call.log) :
            call.log[i].method = 2 => call.log[i].speaker_wav = NonePath

\* C22 as stated: once methods 1 and 2 of the cascade have both raised, a
\* third invocation is made with the language "en" and the reference audio
\* of the call, whatever the language of the call.
C22_ThirdAttemptAlways ==
    call.fn = "synthesize_xtts" /\ pc \in {"m4", "verify", "returned"}
        /\ Len(call.log) >= 2 /\ IsXttsBranch(call.model_key)
        /\ call.log[1].raised /\ call.log[2].raised
    => /\ Len(call.log) >= 3
       /\ call.log[3].method = 3
       /\ call.log[3].language = "en"
       /\ call.log[3].speaker_wav = call.valid_speaker_wav

\* C22: once methods 1 and 2 of the cascade have both raised, a third
\* invocation is made with the language "en" and the reference audio of the
\* call when the language of the call is not "en"; when it is "en", method 3
\* is skipped and method 4 is the third invocation.
C22_ThirdAttempt ==
    call.fn = "synthesize_xtts" /\ pc \in {"m4", "verify", "returned"}
        /\ Len(call.log) >= 2 /\ IsXttsBranch(call.model_key)
        /\ call.log[1].raised /\ call.log[2].raised
    => IF call.language # "en"
       THEN /\ Len(call.log) >= 3
            /\ call.log[3].method = 3
            /\ call.log[3].api = "tts"
            /\ call.log[3].language = "en"
            /\ call.log[3].speaker_wav = call.valid_speaker_wav
       ELSE \A i \in 1..Len(call.log) : call.log[i].method # 3

\* Dutch with a valid reference audio: methods 1 and 2 raised, method 3 ran
\* with "en" and the same reference audio
C22_Witness ==
    /\ pc = "returned"
    /\ call.fn = "synthesize_xtts"
    /\ call.language = "nl"
    /\ call.valid_speaker_wav = SpeakerFile
    /\ Len(call.log) >= 3
    /\ call.log[1].raised /\ call.log[2].raised
    /\ call.log[3].method = 3 /\ call.log[3].language = "en"
    /\ call.log[3].speaker_wav = SpeakerFile

\* C23: the pair load_bark_model returns was loaded for the model name of the
\* call on the device of the call; a call for another name than the cached
\* one does not get the cached pair.
C23_BarkCacheKey ==
    call.fn = "load_bark_model" /\ call.ret.kind = "value" =>
        /\ call.ret.value.model.key = call.key
        /\ call.ret.value.processor.key = call.key
        /\ call.ret.value.model.dev = call.device

\* C24: a load that reaches the backend asks for float16 exactly when the
\* device is cuda and the capability reported is major >= 7; on cpu, on a
\* lower tier and when the capability query raises it loads in float32, and
\* the load completes whenever the processor and the model load.
C24_PrecisionPolicy ==
    call.fn = "load_bark_model" /\ call.loader =>
        /\ call.b.processor /\ call.b.model => call.ret.kind = "value"
        /\ call.ret.kind = "value" =>
               /\ call.ret.value.model.dtype \in {"float16", "float32"}
               /\ call.ret.value.model.dtype = "float16"
                      <=> (call.device = "cuda" /\ call.b.capability = "major>=7")

\* on cuda the capability query raised and the model was loaded in float32
C24_Witness ==
    /\ call.fn = "load_bark_model"
    /\ call.loader
    /\ call.device = "cuda"
    /\ call.b.capability = "raise"
    /\ call.ret.kind = "value"
    /\ call.ret.value.model.dtype = "float32"

\* C25: when synthesize_piper is left, an output file handle that was opened
\* has been closed, and a call that did not succeed gives its caller
\* (False, message) with the text of the error in the message.
C25_HandleClosed ==
    pc = "returned" /\ call.fn = "synthesize_piper" =>
        /\ call.opened => call.closed
        /\ call.ret.kind = "pair"
        /\ ~call.ret.success =>
               call.ret.message.template = "Piper synthese mislukt"
                   /\ call.ret.message.text # ""

\* C26: when the load calls of all threads, made for the same key on the
\* same device, have returned a resource, each of them returned a complete
\* one and the cache holds one complete resource for the key, written by one
\* of them.
C26_ConcurrentLoads ==
    (\A t \in Threads : threads[t].pc = "done" /\ threads[t].ret.kind = "value") =>
        /\ engine = "xtts" =>
               /\ \A t \in Threads : threads[t].ret.value # NoHandle
               /\ DEFAULT_MODEL \in DOMAIN xtts_loaded_models
               /\ \E t \in Threads :
                      xtts_loaded_models[DEFAULT_MODEL] = threads[t].ret.value
        /\ engine = "bark" =>
               /\ \A t \in Threads : /\ threads[t].ret.value.processor # NoProcessor
                                      /\ threads[t].ret.value.model # NoModel
               /\ bark_loaded_processor # NoProcessor
               /\ bark_loaded_model # NoModel
               /\ bark_loaded_processor.id = bark_loaded_model.id

\* C30: a load_bark_model call in a thread that returns gives a processor and
\* a model, neither of them None, that one load produced; and when no load
\* call is running the cached processor, model and device are those of one
\* load, or all None.
C30_BarkPairIntegrity ==
    /\ \A t \in Threads :
           threads[t].fn = "load_bark_model" /\ threads[t].pc = "done"
               /\ threads[t].ret.kind = "value"
           => /\ threads[t].ret.value.processor # NoProcessor
              /\ threads[t].ret.value.model # NoModel
              /\ threads[t].ret.value.processor.id = threads[t].ret.value.model.id
    /\ Quiescent =>
           /\ bark_loaded_processor.id = bark_loaded_model.id
           /\ bark_loaded_model.dev = bark_loaded_device

\* C27: when synthesize_elevenlabs returns success, the MP3 was saved before
\* any conversion was attempted, and the MP3 file is there at the return,
\* whether the conversion succeeded or not.
C27_PersistBeforeTranscode ==
    pc = "returned" /\ call.fn = "synthesize_elevenlabs"
        /\ call.ret.kind = "pair" /\ call.ret.success
    => /\ \E i \in 1..Len(call.trace) :
              /\ call.trace[i] = "save"
              /\ \A j \in 1..Len(call.trace) : call.trace[j] = "convert" => i < j
       /\ files[Mp3Path(call.output_path)] = "nonempty"

\* the conversion raised after the MP3 was saved: success, the MP3 is there
C27_Witness ==
    /\ pc = "returned"
    /\ call.fn = "synthesize_elevenlabs"
    /\ call.ret.kind = "pair" /\ call.ret.success
    /\ call.conv \notin {"ok", "import_error"}
    /\ call.trace[Len(call.trace)] = "convert"
    /\ files[Mp3Path(call.output_path)] = "nonempty"
    /\ files[call.output_path] = "missing"

\* C28: the list get_elevenlabs_voices returns holds exactly the (name, id)
\* pairs of the remote voices whose name and id are both non-empty, each as
\* often as the service reported it, in non-decreasing order of the name.
C28_VoiceCatalog ==
    call.fn = "get_elevenlabs_voices" /\ call.ret.kind = "value" =>
        LET out == call.ret.value
            given == call.voice_list
            Times(seq, x) == Cardinality({i \in 1..Len(seq) : seq[i] = x})
        IN
        /\ \A i \in 1..Len(out) : \A j \in i..Len(out) :
               NameRank(out[i][1]) <= NameRank(out[j][1])
        /\ \A name \in VoiceNames, id \in VoiceIdents :
               Times(out, <<name, id>>)
                   = IF name # "" /\ id # ""
                     THEN Times(given, [name |-> name, voice_id |-> id]) ELSE 0

\* the service reported Bob, a voice without id, then Ann: Ann comes first
\* and the voice without id is left out
C28_Witness ==
    /\ call.fn = "get_elevenlabs_voices"
    /\ call.ret.kind = "value"
    /\ call.voice_list = <<[name |-> "Bob", voice_id |-> "id1"],
                           [name |-> "Ann", voice_id |-> ""],
                           [name |-> "Ann", voice_id |-> "id2"]>>
    /\ call.ret.value = <<<<"Ann", "id2">>, <<"Bob", "id1">>>>

\* C29: every model held in loaded_models was loaded on the device recorded
\* in loaded_device, and a load call that returns a cached model returns one
\* that was loaded on the current device.
C29_CloningCacheDevice ==
    /\ \A k \in DOMAIN xtts_loaded_models :
           xtts_loaded_models[k].dev = xtts_loaded_device
    /\ call.fn = "load_xtts_model" /\ call.ret.kind = "value" /\ ~call.loader
           => call.ret.value.dev = call.device

\* C31: when of two load calls for the same key one has failed and the other
\* has loaded and installed a resource, the cache still holds the resource
\* the successful call installed: the rollback of the failed call did not
\* remove or null it.
C31_RollbackOwnEntryOnly ==
    \A a \in Threads, b \in Threads :
        a # b /\ threads[a].pc = "done" /\ threads[b].pc = "done"
            /\ threads[a].ret.kind = "value" /\ threads[a].id > 0
            /\ threads[b].ret.kind = "raise"
        => /\ engine = "xtts" =>
                  /\ threads[a].key \in DOMAIN xtts_loaded_models
                  /\ xtts_loaded_models[threads[a].key].id = threads[a].id
           /\ engine = "bark" =>
                  /\ bark_loaded_processor.id = threads[a].id
                  /\ bark_loaded_model.id = threads[a].id
                  /\ bark_loaded_device = threads[a].device

\* C32: the voice load_piper_model returns was loaded with the json_path of
\* the call; calls with the same onnx_path and different json_path do not
\* get the same cached voice.
C32_PiperConfigMatches ==
    call.fn = "load_piper_model" /\ call.ret.kind = "value" =>
        /\ call.ret.value.key = call.key
        /\ call.ret.value.json = call.json_path

\* C33: every job id registered in synthesis_jobs by POST /api/synthesize
\* eventually reaches the status 'completed' or 'failed', whatever the model
\* type and the request, rejected requests included.
C33_JobsTerminate ==
    \A j \in 1..MaxJobs :
        (j \in DOMAIN synthesis_jobs)
            ~> (j \in DOMAIN synthesis_jobs
                    /\ synthesis_jobs[j].status \in {"completed", "failed"})

\* the status changes a job may make
JobTransitions ==
    {<<"queued", "processing">>, <<"queued", "failed">>,
     <<"processing", "completed">>, <<"processing", "failed">>}

\* C34: a job starts as 'queued'; its status only moves queued -> processing
\* -> completed | failed or queued -> failed; a terminal status never changes;
\* and the status becomes 'completed' only if the adapter returned success=True.
C34_StatusMonotonic ==
    [][/\ \A j \in DOMAIN synthesis_jobs' \ DOMAIN synthesis_jobs :
              synthesis_jobs'[j].status \in {"queued", "failed"}
       /\ \A j \in DOMAIN synthesis_jobs :
              LET was == synthesis_jobs[j].status
                  is == synthesis_jobs'[j].status
              IN
              was # is =>
                  /\ <<was, is>> \in JobTransitions
                  /\ is = "completed" =>
                        /\ j \in DOMAIN web_workers
                        /\ web_workers[j].ret.kind = "pair"
                        /\ web_workers[j].ret.success = TRUE]_vars

\* a job whose worker got success=True from the adapter is completed
C34_Witness ==
    \E j \in DOMAIN synthesis_jobs :
        /\ synthesis_jobs[j].status = "completed"
        /\ web_workers[j].pc = "end"
        /\ web_workers[j].ret = RetPair(TRUE, web_workers[j].message)

\* C35: a poll that reports the status 'completed' also carries success=true,
\* the adapter's final message and the output_filename / audio_url fields.
C35_PollCompleted ==
    (call.fn = "get_job_status" /\ call.code = 200 /\ call.response.status = "completed")
        => /\ "success" \in DOMAIN call.response
           /\ call.response.success = TRUE
           /\ call.response.message = web_workers[call.job_id].ret.message
           /\ {"output_filename", "audio_url"} \subseteq DOMAIN call.response

\* C36: the output_filename a poll reports for a completed job names a file
\* that exists in the output folder.
C36_ReportedFileExists ==
    (call.fn = "get_job_status" /\ call.code = 200 /\ call.response.status = "completed"
        /\ "output_filename" \in DOMAIN call.response)
        => files[InOutputFolder(call.response.output_filename)] = "nonempty"

\* C37: the window's voice map is empty or holds the catalog of the key that
\* is active now; what a worker fetched with an earlier key, or delivers after
\* the key was cleared, never ends up in the map.
C37_VoiceMapCurrent ==
    \/ elevenlabs_voices = <<>>
    \/ /\ Truthy(app_current_elevenlabs_key)
       /\ elevenlabs_voices = VoiceMap(FormatVoices(AccountVoices(app_current_elevenlabs_key)))

\* the synthesis threads among ws whose position is in at
SynthesisWorkers(ws, at) ==
    Cardinality({i \in DOMAIN ws : ws[i].kind = "synthesis" /\ ws[i].pc \in at})

\* the success and error dialogs among the callbacks q
Dialogs(q) == Cardinality({i \in DOMAIN q : q[i].fn \in {"showinfo", "showerror"}})

\* the callbacks a step added to the queue
Scheduled == SubSeq(gui_after_queue', Len(gui_after_queue) + 1, Len(gui_after_queue'))

\* C38 as stated: at most one synthesis thread exists at a time, and the
\* controls are disabled as long as one exists.
C38_OneWorkerAlive ==
    /\ SynthesisWorkers(gui_workers, {"call", "finally", "report"}) <= 1
    /\ SynthesisWorkers(gui_workers, {"call", "finally", "report"}) = 1
          => gui_ui_state = "disabled"

\* C38, with the worker counted until it has scheduled the re-enabling:
\* at most one synthesis thread is in the engine call or about to schedule
\* set_ui_state('normal'), and the controls are disabled meanwhile; the
\* controls are disabled only by a step that starts a worker; a run that ends
\* has scheduled the re-enabling once and schedules exactly one success or
\* error dialog, and nothing else schedules either; disabled controls are
\* eventually enabled again.
C38_Gating ==
    /\ [](/\ SynthesisWorkers(gui_workers, {"call", "finally"}) <= 1
          /\ SynthesisWorkers(gui_workers, {"call", "finally"}) = 1
                => gui_ui_state = "disabled")
    /\ [][LET all == {"call", "finally", "report"}
              started == SynthesisWorkers(gui_workers', {"call"})
                            > SynthesisWorkers(gui_workers, {"call"})
              scheduling == SynthesisWorkers(gui_workers', {"report"})
                               > SynthesisWorkers(gui_workers, {"report"})
              ended == SynthesisWorkers(gui_workers', all) < SynthesisWorkers(gui_workers, all)
              reenabling == Cardinality({i \in DOMAIN Scheduled :
                                            Scheduled[i].fn = "set_ui_state"})
          IN
          /\ (gui_ui_state = "normal" /\ gui_ui_state' = "disabled") <=> started
          /\ Len(gui_after_queue') >= Len(gui_after_queue) =>
                /\ reenabling = IF scheduling THEN 1 ELSE 0
                /\ Dialogs(Scheduled) = IF ended THEN 1 ELSE 0]_vars
    /\ (gui_ui_state = "disabled") ~> (gui_ui_state = "normal")

\* a run has ended: its success dialog is scheduled and the controls are
\* enabled again
C38_Witness ==
    /\ gui_ui_state = "normal"
    /\ SynthesisWorkers(gui_workers, {"call", "finally", "report"}) = 0
    /\ \E i \in DOMAIN gui_after_queue : gui_after_queue[i].fn = "showinfo"

\* os.path.splitext(p)[0]
SplitextRoot(p) ==
    IF p # <<>> /\ p[Len(p)] \in {".wav", ".WAV", ".mp3"} THEN SubSeq(p, 1, Len(p) - 1) ELSE p

\* C39: the path synthesize_elevenlabs saves the MP3 at differs from the
\* requested path, lies in the same directory, and differs from the requested
\* path only in the final extension (replaced, or added when there is none
\* to replace).
C39_LossyPath ==
    (call.fn = "synthesize_elevenlabs"
        /\ \E i \in DOMAIN call.trace : call.trace[i] \in {"save", "save_failed"})
        => LET output_path_mp3 == Mp3Path(call.output_path) IN
           /\ output_path_mp3 # call.output_path
           /\ Dirname(output_path_mp3) = Dirname(call.output_path)
           /\ SplitextRoot(output_path_mp3) \in {SplitextRoot(call.output_path), call.output_path}
====
